---------------------------- MODULE Spec2Model ----------------------------
(***************************************************************************)
(* FA-5 / FA-6GP monitor and control: protocol decoder, settings tracker,  *)
(* measurement log and half-duplex command scheduler.                      *)
(*                                                                         *)
(* Text is modelled as a sequence of one-character strings, so that the    *)
(* slicing, searching and splitting the Python code performs on a line is  *)
(* computed position by position.                                          *)
(***************************************************************************)
EXTENDS Integers, Sequences, FiniteSets, TLC

(***************************************************************************)
(* Bounds of the model.                                                    *)
(***************************************************************************)
MaxCalls == 2      \* add_string calls in one behaviour of the log on its own
MaxLines == 3      \* lines the readers take from the transport in one behaviour
MaxTime  == 1      \* clock ticks (time.time() is an integer number of ticks)
MaxGate  == 2      \* largest gate time of a settings delta drawn directly
MaxStarts == 2     \* workers created (successful starts) in one behaviour
MaxClicks == 1     \* command buttons clicked in one behaviour

(***************************************************************************)
(* Python values.                                                          *)
(***************************************************************************)
None == "None"

\* an optional bool (None, True or False) is kept as text, so that it can
\* be compared with None
True  == "True"
False == "False"
PyBool(b) == IF b THEN True ELSE False

CR == "\r"
LF == "\n"
CRLF == <<CR, LF>>

\* str.strip() with no argument removes these from both ends
Whitespace == {" ", "\t", CR, LF}

Max(a, b) == IF a >= b THEN a ELSE b
Min(a, b) == IF a <= b THEN a ELSE b

\* s[a:b] with Python's rules: negative indices count from the end and
\* both indices are clamped to 0..len(s)
PyIndex(n, i) == IF i < 0 THEN Max(0, n + i) ELSE Min(i, n)

Slice(s, a, b) ==
    LET lo == PyIndex(Len(s), a)
        hi == PyIndex(Len(s), b)
    IN  IF lo < hi THEN SubSeq(s, lo + 1, hi) ELSE << >>

\* s[a:]
SliceFrom(s, a) == Slice(s, a, Len(s))

\* sub in s
Contains(s, sub) ==
    \E i \in 0..(Len(s) - Len(sub)) : SubSeq(s, i + 1, i + Len(sub)) = sub

\* s.strip()
Strip(s) ==
    LET keep == {i \in 1..Len(s) : s[i] \notin Whitespace}
    IN  IF keep = {} THEN << >>
        ELSE LET first == CHOOSE i \in keep : \A j \in keep : i <= j
                 last  == CHOOSE i \in keep : \A j \in keep : i >= j
             IN  SubSeq(s, first, last)

\* s.split(sep) for a one-character separator
RECURSIVE Split(_, _)
Split(s, sep) ==
    LET hits == {i \in 1..Len(s) : s[i] = sep}
    IN  IF hits = {} THEN << s >>
        ELSE LET k == CHOOSE i \in hits : \A j \in hits : i <= j
             IN  << SubSeq(s, 1, k - 1) >> \o Split(SubSeq(s, k + 1, Len(s)), sep)

DigitChars == <<"0", "1", "2", "3", "4", "5", "6", "7", "8", "9">>
IsDigit(c) == \E i \in 1..10 : DigitChars[i] = c
DigitVal(c) == (CHOOSE i \in 1..10 : DigitChars[i] = c) - 1
AllDigits(s) == \A i \in 1..Len(s) : IsDigit(s[i])

RECURSIVE NatOfDigits(_)
NatOfDigits(s) ==
    IF s = << >> THEN 0
    ELSE 10 * NatOfDigits(SubSeq(s, 1, Len(s) - 1)) + DigitVal(s[Len(s)])

HasSign(s) == s # << >> /\ s[1] \in {"+", "-"}
Unsigned(s) == IF HasSign(s) THEN Tail(s) ELSE s

\* int(text): surrounding whitespace, an optional sign, then digits only;
\* anything else raises ValueError (ok = FALSE)
IntSigned(neg, d) ==
    IF d # << >> /\ AllDigits(d)
    THEN [ok |-> TRUE, val |-> IF neg THEN 0 - NatOfDigits(d) ELSE NatOfDigits(d)]
    ELSE [ok |-> FALSE, val |-> 0]
IntStripped(t) == IntSigned(HasSign(t) /\ t[1] = "-", Unsigned(t))
IntOf(text) == IntStripped(Strip(text))

(***************************************************************************)
(* decimal.Decimal                                                         *)
(*                                                                         *)
(* A finite Decimal is kept as its exact value: a sign, the coefficient's  *)
(* digits without leading or trailing zeros, and a power of ten.  Two      *)
(* Decimals are numerically equal iff these records are equal.             *)
(***************************************************************************)
RECURSIVE DropLeadingZeros(_)
DropLeadingZeros(ds) ==
    IF ds # << >> /\ ds[1] = 0 THEN DropLeadingZeros(Tail(ds)) ELSE ds

RECURSIVE Normalize(_, _, _)
Normalize(neg, ds, exp) ==
    LET d == DropLeadingZeros(ds)
    IN  IF d = << >> THEN [kind |-> "num", neg |-> FALSE, digits |-> << >>, exp |-> 0]
        ELSE IF d[Len(d)] = 0 THEN Normalize(neg, SubSeq(d, 1, Len(d) - 1), exp + 1)
        ELSE [kind |-> "num", neg |-> neg, digits |-> d, exp |-> exp]

DigitValues(s) == [i \in 1..Len(s) |-> DigitVal(s[i])]

Infinity(neg) == [kind |-> "inf", neg |-> neg, digits |-> << >>, exp |-> 0]
NaN          == [kind |-> "nan", neg |-> FALSE, digits |-> << >>, exp |-> 0]
sNaN         == [kind |-> "snan", neg |-> FALSE, digits |-> << >>, exp |-> 0]

\* the special values Decimal() accepts after the sign (upper case only:
\* the lines of this model carry no lower-case letters)
IsInfText(s)  == s = <<"I", "N", "F">> \/ s = <<"I", "N", "F", "I", "N", "I", "T", "Y">>
IsNaNText(s)  == Len(s) >= 3 /\ SubSeq(s, 1, 3) = <<"N", "A", "N">>
                    /\ AllDigits(SubSeq(s, 4, Len(s)))
IsSNaNText(s) == Len(s) >= 4 /\ SubSeq(s, 1, 4) = <<"S", "N", "A", "N">>
                    /\ AllDigits(SubSeq(s, 5, Len(s)))

\* the first position of character ch in s, 0 when there is none
FirstIndexOf(s, ch) ==
    LET at == {i \in 1..Len(s) : s[i] = ch}
    IN  IF at = {} THEN 0 ELSE CHOOSE i \in at : \A j \in at : i <= j

\* the text before and after position p; all of it and nothing when p = 0
Before(s, p) == IF p = 0 THEN s ELSE SubSeq(s, 1, p - 1)
After(s, p)  == IF p = 0 THEN << >> ELSE SubSeq(s, p + 1, Len(s))

\* the exponent part: absent, or an optional sign and at least one digit
ExponentOk(hasE, expo) ==
    ~hasE \/ (Unsigned(expo) # << >> /\ AllDigits(Unsigned(expo)))
ExponentVal(hasE, expo) ==
    IF ~hasE \/ ~ExponentOk(hasE, expo) THEN 0
    ELSE IF HasSign(expo) /\ expo[1] = "-" THEN 0 - NatOfDigits(Unsigned(expo))
    ELSE NatOfDigits(Unsigned(expo))

\* digits, an optional point, digits: at least one digit in all
DecimalNumber(neg, ip, fp, expOk, expV) ==
    IF AllDigits(ip) /\ AllDigits(fp) /\ Len(ip) + Len(fp) >= 1 /\ expOk
    THEN [ok |-> TRUE, val |-> Normalize(neg, DigitValues(ip \o fp), expV - Len(fp))]
    ELSE [ok |-> FALSE, val |-> NaN]

DecimalMantissa(neg, mant, dPos, expOk, expV) ==
    DecimalNumber(neg, Before(mant, dPos), After(mant, dPos), expOk, expV)

DecimalExponent(neg, body, ePos) ==
    DecimalMantissa(neg, Before(body, ePos), FirstIndexOf(Before(body, ePos), "."),
                    ExponentOk(ePos # 0, After(body, ePos)),
                    ExponentVal(ePos # 0, After(body, ePos)))

DecimalBody(neg, body) ==
    IF IsInfText(body) THEN [ok |-> TRUE, val |-> Infinity(neg)]
    ELSE IF IsNaNText(body) THEN [ok |-> TRUE, val |-> NaN]
    ELSE IF IsSNaNText(body) THEN [ok |-> TRUE, val |-> sNaN]
    ELSE DecimalExponent(neg, body, FirstIndexOf(body, "E"))

DecimalSigned(t) == DecimalBody(HasSign(t) /\ t[1] = "-", Unsigned(t))

\* Decimal(text): ok = FALSE stands for decimal.InvalidOperation
DecimalOf(text) == DecimalSigned(Strip(text))

\* number / 10 as add_string computes it: exact for a finite value (the
\* context precision of 28 digits is never reached by a line of the model),
\* InvalidOperation (ok = FALSE) for a signalling NaN
DivideByTen(v) ==
    IF v.kind = "snan" THEN [ok |-> FALSE, val |-> v]
    ELSE IF v.kind = "num" /\ v.digits # << >>
         THEN [ok |-> TRUE, val |-> [v EXCEPT !.exp = v.exp - 1]]
    ELSE [ok |-> TRUE, val |-> v]


(***************************************************************************)
(* Decimal arithmetic as the statistics use it.  A result is [ok, val];    *)
(* ok = FALSE stands for decimal.InvalidOperation leaving the operation.   *)
(* No coefficient of the model reaches the context precision of 28 digits  *)
(* in a sum or a difference, so these are exact.                           *)
(***************************************************************************)
Zero == [kind |-> "num", neg |-> FALSE, digits |-> << >>, exp |-> 0]

Returned(v) == [ok |-> TRUE, val |-> v]
InvalidOperation == [ok |-> FALSE, val |-> NaN]

IsNaN(v) == v.kind = "nan" \/ v.kind = "snan"

Zeros(n) == [i \in 1..n |-> 0]
\* the coefficient of a finite value at the exponent e <= v.exp
Coefficient(v, e) == v.digits \o Zeros(v.exp - e)
PadLeft(ds, n) == Zeros(n - Len(ds)) \o ds
Front(ds) == SubSeq(ds, 1, Len(ds) - 1)

\* -1, 0 or 1: the order of two digit sequences of one length
CmpDigits(x, y) ==
    LET differ == {i \in 1..Len(x) : x[i] # y[i]}
        first == CHOOSE i \in differ : \A j \in differ : i <= j
    IN  IF differ = {} THEN 0 ELSE IF x[first] < y[first] THEN -1 ELSE 1

\* x + y + carry and x - y - borrow (x >= y) on digit sequences of one length
RECURSIVE AddDigits(_, _, _)
AddDigits(x, y, carry) ==
    IF x = << >> THEN << carry >>
    ELSE AddDigits(Front(x), Front(y), (x[Len(x)] + y[Len(y)] + carry) \div 10)
            \o << (x[Len(x)] + y[Len(y)] + carry) % 10 >>

RECURSIVE SubDigits(_, _, _)
SubDigits(x, y, borrow) ==
    IF x = << >> THEN << >>
    ELSE SubDigits(Front(x), Front(y),
                   IF x[Len(x)] - y[Len(y)] - borrow < 0 THEN 1 ELSE 0)
            \o << (x[Len(x)] - y[Len(y)] - borrow + 10) % 10 >>

\* the sum of two finite values whose coefficients x and y are aligned at
\* the exponent e
AddAligned(aneg, x, bneg, y, e) ==
    IF aneg = bneg THEN Normalize(aneg, AddDigits(x, y, 0), e)
    ELSE IF CmpDigits(x, y) >= 0 THEN Normalize(aneg, SubDigits(x, y, 0), e)
    ELSE Normalize(bneg, SubDigits(y, x, 0), e)

AddAt(a, b, e, n) ==
    AddAligned(a.neg, PadLeft(Coefficient(a, e), n), b.neg, PadLeft(Coefficient(b, e), n), e)

AddFinite(a, b) ==
    AddAt(a, b, Min(a.exp, b.exp),
          Max(Len(Coefficient(a, Min(a.exp, b.exp))), Len(Coefficient(b, Min(a.exp, b.exp)))))

Negate(v) == IF v.kind = "num" /\ v.digits = << >> THEN v ELSE [v EXCEPT !.neg = ~v.neg]

\* a + b
DecimalAdd(a, b) ==
    IF a.kind = "snan" \/ b.kind = "snan" THEN InvalidOperation
    ELSE IF a.kind = "nan" \/ b.kind = "nan" THEN Returned(NaN)
    ELSE IF a.kind = "inf" /\ b.kind = "inf"
         THEN IF a.neg = b.neg THEN Returned(a) ELSE InvalidOperation
    ELSE IF a.kind = "inf" THEN Returned(a)
    ELSE IF b.kind = "inf" THEN Returned(b)
    ELSE Returned(AddFinite(a, b))

\* a - b
DecimalSub(a, b) == DecimalAdd(a, Negate(b))

\* -1, 0 or 1: the order of two values neither of which is a NaN
CmpMagnitude(a, b, e, n) ==
    CmpDigits(PadLeft(Coefficient(a, e), n), PadLeft(Coefficient(b, e), n))
CmpFinite(a, b) ==
    IF a.neg # b.neg THEN (IF a.neg THEN -1 ELSE 1)
    ELSE (IF a.neg THEN -1 ELSE 1)
            * CmpMagnitude(a, b, Min(a.exp, b.exp),
                  Max(Len(Coefficient(a, Min(a.exp, b.exp))),
                      Len(Coefficient(b, Min(a.exp, b.exp)))))
\* an infinity stands outside every finite value
Rank(v) == IF v.kind = "inf" THEN (IF v.neg THEN -1 ELSE 1) ELSE 0
CmpOrdered(a, b) ==
    IF Rank(a) # Rank(b) THEN (IF Rank(a) < Rank(b) THEN -1 ELSE 1)
    ELSE IF Rank(a) # 0 THEN 0
    ELSE CmpFinite(a, b)

\* a < b, a > b: an ordering comparison with a NaN raises InvalidOperation
DecimalLess(a, b) ==
    IF IsNaN(a) \/ IsNaN(b) THEN InvalidOperation
    ELSE [ok |-> TRUE, val |-> CmpOrdered(a, b) < 0]
DecimalGreater(a, b) ==
    IF IsNaN(a) \/ IsNaN(b) THEN InvalidOperation
    ELSE [ok |-> TRUE, val |-> CmpOrdered(a, b) > 0]
\* a == b: false for a quiet NaN, InvalidOperation for a signalling one
DecimalEqual(a, b) ==
    IF a.kind = "snan" \/ b.kind = "snan" THEN InvalidOperation
    ELSE IF IsNaN(a) \/ IsNaN(b) THEN [ok |-> TRUE, val |-> FALSE]
    ELSE [ok |-> TRUE, val |-> CmpOrdered(a, b) = 0]


\* the digits and the remainder of the long division of a digit sequence by
\* a small positive integer n, entered with the remainder rem
RECURSIVE QuotientDigits(_, _, _)
QuotientDigits(ds, n, rem) ==
    IF ds = << >> THEN << >>
    ELSE << (rem * 10 + Head(ds)) \div n >>
            \o QuotientDigits(Tail(ds), n, (rem * 10 + Head(ds)) % n)
RECURSIVE Remainder(_, _, _)
Remainder(ds, n, rem) ==
    IF ds = << >> THEN rem ELSE Remainder(Tail(ds), n, (rem * 10 + Head(ds)) % n)

\* the default context: 28 significant digits, ROUND_HALF_EVEN
Precision == 28

\* q holds more than Precision digits and starts with a non-zero one; inexact
\* says that non-zero digits follow those of q.  The result is q at the
\* exponent e rounded to Precision digits.
RoundUp(kept, next, rest, inexact) ==
    next > 5 \/ (next = 5 /\ (inexact \/ \E i \in 1..Len(rest) : rest[i] # 0))
             \/ (next = 5 /\ kept[Len(kept)] % 2 = 1)
RoundKept(neg, kept, up, e) ==
    Normalize(neg, IF up THEN AddDigits(kept, Zeros(Len(kept) - 1) \o << 1 >>, 0) ELSE kept, e)
RoundToPrecision(neg, q, inexact, e) ==
    RoundKept(neg, SubSeq(q, 1, Precision),
              RoundUp(SubSeq(q, 1, Precision), q[Precision + 1],
                      SubSeq(q, Precision + 2, Len(q)), inexact),
              e + Len(q) - Precision)

\* a finite non-zero value over n: the coefficient is extended by zeros
\* enough for the quotient to hold more than Precision digits, n being an
\* integer of at most 10 digits
Extension == Precision + 11
DivideFinite(v, n) ==
    RoundToPrecision(v.neg,
                     DropLeadingZeros(QuotientDigits(v.digits \o Zeros(Extension), n, 0)),
                     Remainder(v.digits \o Zeros(Extension), n, 0) # 0,
                     v.exp - Extension)

\* a / n for a positive integer n
DecimalDivInt(a, n) ==
    IF a.kind = "snan" THEN InvalidOperation
    ELSE IF a.kind # "num" \/ a.digits = << >> THEN Returned(a)
    ELSE Returned(DivideFinite(a, n))


\* the integer a digit sequence writes
RECURSIVE CoefficientValue(_)
CoefficientValue(ds) ==
    IF ds = << >> THEN 0 ELSE CoefficientValue(Front(ds)) * 10 + ds[Len(ds)]

\* a / b for b > 0 whose coefficient is a small integer
DecimalDiv(a, b) ==
    IF a.kind = "snan" THEN InvalidOperation
    ELSE IF b.kind = "inf"
         THEN IF a.kind = "inf" THEN InvalidOperation
              ELSE IF a.kind = "nan" THEN Returned(a) ELSE Returned(Zero)
    ELSE IF a.kind # "num" \/ a.digits = << >> THEN Returned(a)
    ELSE Returned(DivideFinite([a EXCEPT !.exp = a.exp - b.exp], CoefficientValue(b.digits)))

\* 1000000 * v
MillionTimes(v) ==
    IF v.kind = "num" /\ v.digits # << >> THEN [v EXCEPT !.exp = v.exp + 6] ELSE v

\* floor(log10(v)) of a finite v > 0: the place of its leading digit
Order(v) == Len(v.digits) + v.exp - 1

\* round(v, decimals) of a finite v: to a multiple of 10^-decimals, a tie
\* to the even neighbour.  ds is the coefficient with at least one digit
\* before the drop digits that are cut.
QuantizeDigits(neg, ds, drop, e) ==
    RoundKept(neg, SubSeq(ds, 1, Len(ds) - drop),
              RoundUp(SubSeq(ds, 1, Len(ds) - drop), ds[Len(ds) - drop + 1],
                      SubSeq(ds, Len(ds) - drop + 2, Len(ds)), FALSE),
              e)
Quantize(v, decimals) ==
    IF v.kind # "num" THEN InvalidOperation
    ELSE IF v.digits = << >> \/ v.exp >= 0 - decimals THEN Returned(v)
    ELSE Returned(QuantizeDigits(v.neg,
                                 PadLeft(v.digits, Max(Len(v.digits), 0 - decimals - v.exp + 1)),
                                 0 - decimals - v.exp, 0 - decimals))


(***************************************************************************)
(* fa5usbdata.FASettings                                                   *)
(***************************************************************************)
\* FASettings(): every field absent, gate time 0
FASettings ==
    [channel |-> None, imp50 |-> None, precision |-> None,
     ext_reference_osc |-> None, lpf |-> None, gate_time |-> 0]

\* update_settings without the None test on lpf
update_settings_clobber(self, settings) ==
    [channel           |-> IF settings.channel # None THEN settings.channel
                           ELSE self.channel,
     imp50             |-> IF settings.imp50 # None THEN settings.imp50
                           ELSE self.imp50,
     precision         |-> IF settings.precision # None THEN settings.precision
                           ELSE self.precision,
     ext_reference_osc |-> IF settings.ext_reference_osc # None
                           THEN settings.ext_reference_osc
                           ELSE self.ext_reference_osc,
     lpf               |-> settings.lpf,
     gate_time         |-> IF settings.gate_time > 0 THEN settings.gate_time
                           ELSE self.gate_time]

\* update_settings with gate_time += in place of gate_time =
update_settings_accumulate(self, settings) ==
    [channel           |-> IF settings.channel # None THEN settings.channel
                           ELSE self.channel,
     imp50             |-> IF settings.imp50 # None THEN settings.imp50
                           ELSE self.imp50,
     precision         |-> IF settings.precision # None THEN settings.precision
                           ELSE self.precision,
     ext_reference_osc |-> IF settings.ext_reference_osc # None
                           THEN settings.ext_reference_osc
                           ELSE self.ext_reference_osc,
     lpf               |-> IF settings.lpf # None THEN settings.lpf ELSE self.lpf,
     gate_time         |-> IF settings.gate_time > 0
                           THEN self.gate_time + settings.gate_time
                           ELSE self.gate_time]

\* FASettings.update_settings(self, settings)
update_settings(self, settings) ==
    [channel           |-> IF settings.channel # None THEN settings.channel
                           ELSE self.channel,
     imp50             |-> IF settings.imp50 # None THEN settings.imp50
                           ELSE self.imp50,
     precision         |-> IF settings.precision # None THEN settings.precision
                           ELSE self.precision,
     ext_reference_osc |-> IF settings.ext_reference_osc # None
                           THEN settings.ext_reference_osc
                           ELSE self.ext_reference_osc,
     lpf               |-> IF settings.lpf # None THEN settings.lpf ELSE self.lpf,
     gate_time         |-> IF settings.gate_time > 0 THEN settings.gate_time
                           ELSE self.gate_time]

(***************************************************************************)
(* fa5usbdata.preprocess_string, the decoder                               *)
(***************************************************************************)
POWER     == "power"
FREQUENCY == "frequency"

OK  == <<"O", "K">>
POK == <<"P", "O", "K">>
AOK == <<"A", "O", "K">>
GOK == <<"G", "O", "K">>
DOK == <<"D", "O", "K">>
EOK == <<"E", "O", "K">>
COK == <<"C", "O", "K">>
LPF == <<"L", "P", "F">>
LPF_ON_EOK     == <<"L", "P", "F", " ", "O", "N", " ", "E", "O", "K">>
CH1_LPF_ON_COK == <<"C", "H", "1", " ", "L", "P", "F", " ", "O", "N", " ", "C", "O", "K">>

\* a function that falls off its last elif returns None
channel_to_text(channel_char) ==
    IF channel_char = <<"A">> THEN "Channel: 1"
    ELSE IF channel_char = <<"B">> THEN "Channel: 2"
    ELSE IF channel_char = <<"T">> THEN "Channel: Internal Clock"
    ELSE None

Measurement(category, text) == [category |-> category, text |-> text]

Decoded(ms, settings) == [raised |-> FALSE, measurements |-> ms, new_settings |-> settings]

\* int() failed inside the decoder: ValueError leaves preprocess_string
DecodeError == [raised |-> TRUE, measurements |-> << >>, new_settings |-> FASettings]

\* the reply to a gate time command: int() of the seven characters
DecodeGateTime(g) ==
    IF g.ok THEN Decoded(<< >>, [FASettings EXCEPT !.gate_time = g.val])
    ELSE DecodeError

\* the power measurement taken whenever a second field exists
DecodeStream_pair(str_list, freq) ==
    IF Len(str_list) >= 2
    THEN Decoded(<< freq, Measurement(POWER, str_list[2]) >>, FASettings)
    ELSE Decoded(<< freq >>, FASettings)

\* a stream line split at the commas
DecodeStream(str_list, freq) ==
    IF Len(str_list) = 3
    THEN Decoded(<< freq, Measurement(POWER, str_list[2]) >>, FASettings)
    ELSE Decoded(<< freq >>, FASettings)

\* a line without "OK" taken for a stream line whether or not it has a "$"
DecodeNoAck_nomarker(s) ==
    DecodeStream(Split(s, ","), Measurement(FREQUENCY, Slice(Head(Split(s, ",")), 2, -3)))

\* the else branch of preprocess_string: no "OK" in the stripped line s
DecodeNoAck(s) ==
    IF Contains(s, <<"$">>)
    THEN DecodeStream(Split(s, ","),
                      Measurement(FREQUENCY, Slice(Head(Split(s, ",")), 2, -3)))
    ELSE Decoded(<< >>, FASettings)

\* the low-pass-filter replies read by their "ON" instead of compared whole
DecodeStripped_loose(s, end) ==
    IF Contains(s, OK)
    THEN IF Contains(s, POK)
         THEN Decoded(<< Measurement(POWER, Slice(s, 2, -4)) >>, FASettings)
         ELSE IF end = AOK \/ end = GOK
         THEN DecodeGateTime(IntOf(Slice(s, -14, -7)))
         ELSE IF end = DOK
         THEN Decoded(<< >>,
                 [FASettings EXCEPT
                    !.channel = channel_to_text(Slice(s, 1, 2)),
                    !.precision = PyBool(Slice(s, 2, 3) = <<"P">>),
                    !.ext_reference_osc = PyBool(Slice(s, 3, 4) = <<"E">>),
                    !.imp50 = PyBool(Slice(s, 4, 5) = <<"R">>),
                    !.lpf = PyBool(Slice(s, 5, 6) = <<"L">>)])
         ELSE IF end = EOK
         THEN IF Slice(s, 0, 3) = LPF
              THEN Decoded(<< >>,
                      [FASettings EXCEPT !.lpf = PyBool(Contains(s, <<"O", "N">>))])
              ELSE Decoded(<< >>, FASettings)
         ELSE IF end = COK
         THEN IF Slice(s, 4, 7) = LPF
              THEN Decoded(<< >>,
                      [FASettings EXCEPT !.lpf = PyBool(Contains(s, <<"O", "N">>))])
              ELSE Decoded(<< >>, FASettings)
         ELSE Decoded(<< >>, FASettings)
    ELSE DecodeNoAck(s)

\* the branches of preprocess_string on the stripped line s whose last
\* three characters are end
DecodeStripped(s, end) ==
    IF Contains(s, OK)
    THEN IF Contains(s, POK)
         THEN Decoded(<< Measurement(POWER, Slice(s, 2, -4)) >>, FASettings)
         ELSE IF end = AOK \/ end = GOK
         THEN DecodeGateTime(IntOf(Slice(s, -14, -7)))
         ELSE IF end = DOK
         THEN Decoded(<< >>,
                 [FASettings EXCEPT
                    !.channel = channel_to_text(Slice(s, 1, 2)),
                    !.precision = PyBool(Slice(s, 2, 3) = <<"P">>),
                    !.ext_reference_osc = PyBool(Slice(s, 3, 4) = <<"E">>),
                    !.imp50 = PyBool(Slice(s, 4, 5) = <<"R">>),
                    !.lpf = PyBool(Slice(s, 5, 6) = <<"L">>)])
         ELSE IF end = EOK
         THEN IF Slice(s, 0, 3) = LPF
              THEN Decoded(<< >>, [FASettings EXCEPT !.lpf = PyBool(s = LPF_ON_EOK)])
              ELSE Decoded(<< >>, FASettings)
         ELSE IF end = COK
         THEN IF Slice(s, 4, 7) = LPF
              THEN Decoded(<< >>, [FASettings EXCEPT !.lpf = PyBool(s = CH1_LPF_ON_COK)])
              ELSE Decoded(<< >>, FASettings)
         ELSE Decoded(<< >>, FASettings)
    ELSE DecodeNoAck(s)

preprocess_string(string) == DecodeStripped(Strip(string), SliceFrom(Strip(string), -3))

(***************************************************************************)
(* fa5usbdata.MeasureLog.  A log is the record of the object's fields.     *)
(***************************************************************************)
\* MeasureLog.__init__ at time t: the first add_string resets
NewMeasureLog(t) ==
    [strings |-> << >>, frequencies |-> << >>, power |-> << >>,
     start_time |-> t, reset_on_the_next_read |-> TRUE,
     latest_settings |-> FASettings]

\* a reset that also forgets the settings learned from the device
reset_forget(ml, reset_time, t) ==
    [ml EXCEPT !.strings = << >>, !.frequencies = << >>, !.power = << >>,
               !.start_time = IF reset_time THEN t ELSE ml.start_time,
               !.reset_on_the_next_read = FALSE,
               !.latest_settings = FASettings]

\* a reset that clears the raw lines and keeps the samples
reset_strings(ml, reset_time, t) ==
    [ml EXCEPT !.strings = << >>,
               !.start_time = IF reset_time THEN t ELSE ml.start_time,
               !.reset_on_the_next_read = FALSE]

\* MeasureLog.reset(reset_time) at time t
reset(ml, reset_time, t) ==
    [ml EXCEPT !.strings = << >>, !.frequencies = << >>, !.power = << >>,
               !.start_time = IF reset_time THEN t ELSE ml.start_time,
               !.reset_on_the_next_read = FALSE]

\* MeasureLog.reset_on_next_read
reset_on_next_read(ml) == [ml EXCEPT !.reset_on_the_next_read = TRUE]

Entry(value, timestamp) == <<value, timestamp>>

\* one pass of add_string's for loop: the try block around Decimal() and
\* the division catches InvalidOperation and goes on with the next one
AddTenth(ml, tenth, timestamp) ==
    IF tenth.ok THEN [ml EXCEPT !.power = Append(@, Entry(tenth.val, timestamp))]
    ELSE ml
AddNumber(ml, category, number, timestamp) ==
    IF ~number.ok THEN ml
    ELSE IF category = FREQUENCY
    THEN [ml EXCEPT !.frequencies = Append(@, Entry(number.val, timestamp))]
    ELSE IF category = POWER
    THEN AddTenth(ml, DivideByTen(number.val), timestamp)
    ELSE ml
AddMeasurement(ml, m, timestamp) ==
    AddNumber(ml, m.category, DecimalOf(m.text), timestamp)

\* the for loop with the try block around it instead of inside it: the
\* first payload that is not a number ends the loop
RECURSIVE AddMeasurements_abort(_, _, _)
AddMeasurements_abort(ml, ms, timestamp) ==
    IF ms = << >> THEN ml
    ELSE IF ~DecimalOf(Head(ms).text).ok THEN ml
    ELSE AddMeasurements_abort(AddMeasurement(ml, Head(ms), timestamp), Tail(ms),
                               timestamp)

RECURSIVE AddMeasurements(_, _, _)
AddMeasurements(ml, ms, timestamp) ==
    IF ms = << >> THEN ml
    ELSE AddMeasurements(AddMeasurement(ml, Head(ms), timestamp), Tail(ms), timestamp)

\* MeasureLog.add_string(single_line_string) at time t.  The result is the
\* log after the call and whether the call raised: an exception of the
\* decoder leaves add_string after the deferred reset and before the line
\* is appended.
AddDecoded(ml, single_line_string, timestamp, decoded) ==
    IF decoded.raised THEN [raised |-> TRUE, ml |-> ml]
    ELSE [raised |-> FALSE,
          ml |-> AddMeasurements(
                   [ml EXCEPT
                      !.strings = Append(@, Entry(single_line_string, timestamp)),
                      !.latest_settings = update_settings(@, decoded.new_settings)],
                   decoded.measurements, timestamp)]
AddAfterReset(ml, single_line_string, t) ==
    AddDecoded(ml, single_line_string, t - ml.start_time,
               preprocess_string(single_line_string))
add_string(ml, single_line_string, t) ==
    AddAfterReset(IF ml.reset_on_the_next_read THEN reset(ml, TRUE, t) ELSE ml,
                  single_line_string, t)


(***************************************************************************)
(* The statistics of MeasureLog.  A result is [ok, val]; ok = FALSE stands *)
(* for an exception of the decimal module leaving the method.              *)
(***************************************************************************)
\* the float 0.0 the statistics return for lack of data
FloatZero == [kind |-> "float", neg |-> FALSE, digits |-> << >>, exp |-> 0]

\* MeasureLog._get_data
_get_data(ml, category) ==
    IF category = "frequency" THEN ml.frequencies
    ELSE IF category = "power" THEN ml.power
    ELSE << >>

\* [value for value, _ in data]
ValuesOf(data) == [i \in 1..Len(data) |-> data[i][1]]

\* min() and max() of a non-empty sequence: each further item is compared
\* with the best one so far
RECURSIVE MinFrom(_, _)
MinFrom(best, rest) ==
    IF rest = << >> THEN Returned(best)
    ELSE IF ~DecimalLess(Head(rest), best).ok THEN InvalidOperation
    ELSE MinFrom(IF DecimalLess(Head(rest), best).val THEN Head(rest) ELSE best, Tail(rest))
RECURSIVE MaxFrom(_, _)
MaxFrom(best, rest) ==
    IF rest = << >> THEN Returned(best)
    ELSE IF ~DecimalGreater(Head(rest), best).ok THEN InvalidOperation
    ELSE MaxFrom(IF DecimalGreater(Head(rest), best).val THEN Head(rest) ELSE best,
                 Tail(rest))

\* sum() of a sequence, from the running total
RECURSIVE SumFrom(_, _)
SumFrom(total, rest) ==
    IF rest = << >> THEN Returned(total)
    ELSE IF ~DecimalAdd(total, Head(rest)).ok THEN InvalidOperation
    ELSE SumFrom(DecimalAdd(total, Head(rest)).val, Tail(rest))

MinOfData(data) ==
    IF data # << >> THEN MinFrom(Head(ValuesOf(data)), Tail(ValuesOf(data)))
    ELSE Returned(FloatZero)
MaxOfData(data) ==
    IF data # << >> THEN MaxFrom(Head(ValuesOf(data)), Tail(ValuesOf(data)))
    ELSE Returned(FloatZero)
MeanOfSum(total, n) == IF total.ok THEN DecimalDivInt(total.val, n) ELSE InvalidOperation
MeanOfData(data) ==
    IF data # << >> THEN MeanOfSum(SumFrom(Zero, ValuesOf(data)), Len(data))
    ELSE Returned(FloatZero)

\* MeasureLog.min_value, max_value, average_value
min_value(ml, category) == MinOfData(_get_data(ml, category))
max_value(ml, category) == MaxOfData(_get_data(ml, category))
average_value(ml, category) == MeanOfData(_get_data(ml, category))

\* the deviation asked of any data at all
StdDevOfData_any(data) ==
    IF data # << >> THEN Returned([kind |-> "stdev", values |-> ValuesOf(data)])
    ELSE Returned(FloatZero)

\* MeasureLog.std_dev_value: statistics.stdev of two or more values is kept
\* as the call it is
StdDevOfData(data) ==
    IF Len(data) > 1 THEN Returned([kind |-> "stdev", values |-> ValuesOf(data)])
    ELSE Returned(FloatZero)
std_dev_value(ml, category) == StdDevOfData(_get_data(ml, category))

\* max_val - min_val; without data both are the float 0.0
RangeOf(min_val, max_val) ==
    IF ~min_val.ok \/ ~max_val.ok THEN InvalidOperation
    ELSE IF min_val.val.kind = "float" THEN Returned(FloatZero)
    ELSE DecimalSub(max_val.val, min_val.val)
\* MeasureLog.peak_to_peak
peak_to_peak(ml, category) == RangeOf(min_value(ml, category), max_value(ml, category))

\* MeasureLog.latest_value
LatestOfData(data) ==
    IF data # << >> THEN << data[Len(data)][1], data[Len(data)][2] >>
    ELSE << FloatZero, FloatZero >>
latest_value(ml, category) == LatestOfData(_get_data(ml, category))

\* MeasureLog.get_time_interval: timestamps are whole seconds, the result
\* is in milliseconds
IntervalOfData(data) ==
    IF Len(data) > 1 THEN (data[Len(data)][2] - data[Len(data) - 1][2]) * 1000
    ELSE 0
get_time_interval(ml, category) == IntervalOfData(_get_data(ml, category))

\* MeasureLog.count
CountOfData(data) == IF data # << >> THEN Len(data) ELSE 0
count(ml, category) == CountOfData(_get_data(ml, category))


(***************************************************************************)
(* MeasureLog.get_freq_difference(freq, target_freq), both Decimals.  The  *)
(* result is [ok, target, difference, ppm]; ok = FALSE stands for an       *)
(* exception leaving the method: InvalidOperation of the decimal module,   *)
(* ValueError of math.log10 or math.floor, OverflowError of math.floor.    *)
(***************************************************************************)
NoDifference == [ok |-> FALSE, target |-> NaN, difference |-> NaN, ppm |-> NaN]
OneTenth == [kind |-> "num", neg |-> FALSE, digits |-> << 1 >>, exp |-> -1]

\* the difference, and ppm by the sign of the target
FreqDiffResult(target, difference, positive) ==
    IF ~difference.ok \/ ~positive.ok THEN NoDifference
    ELSE IF positive.val
         THEN [ok |-> DecimalDiv(MillionTimes(difference.val), target).ok,
               target |-> target, difference |-> difference.val,
               ppm |-> DecimalDiv(MillionTimes(difference.val), target).val]
    ELSE [ok |-> TRUE, target |-> target, difference |-> difference.val,
          ppm |-> FloatZero]

FreqDiffOfTarget(frequency, target) ==
    IF ~target.ok THEN NoDifference
    ELSE FreqDiffResult(target.val, DecimalSub(frequency, target.val),
                        DecimalGreater(target.val, Zero))

\* the target derived from the frequency: shifted is frequency + 0.1, whose
\* logarithm exists only if it is finite and not zero
AutoTarget(frequency, shifted) ==
    IF ~shifted.ok \/ shifted.val.kind # "num" \/ shifted.val.digits = << >>
    THEN InvalidOperation
    ELSE Quantize(frequency, 3 - Order(shifted.val))

ChooseTarget(frequency, target_freq, isZero) ==
    IF ~isZero.ok THEN InvalidOperation
    ELSE IF isZero.val THEN AutoTarget(frequency, DecimalAdd(frequency, OneTenth))
    ELSE Returned(target_freq)

FreqDiffOfFrequency(frequency, target_freq) ==
    IF ~frequency.ok THEN NoDifference
    ELSE FreqDiffOfTarget(frequency.val,
                          ChooseTarget(frequency.val, target_freq,
                                       DecimalEqual(target_freq, Zero)))

\* the mean of the stored samples stands in for a frequency of zero
ChooseFrequency(ml, freq, isZero) ==
    IF ~isZero.ok THEN InvalidOperation
    ELSE IF isZero.val /\ Len(ml.frequencies) > 0 THEN average_value(ml, "frequency")
    ELSE Returned(freq)

get_freq_difference(ml, freq, target_freq) ==
    FreqDiffOfFrequency(ChooseFrequency(ml, freq, DecimalEqual(freq, Zero)), target_freq)


(***************************************************************************)
(* Received lines.  Worker.read_line returns text that ends with CR LF.    *)
(***************************************************************************)
StreamLine3(freq, pow) == <<"$", "A">> \o freq \o <<"0", "0", "1", ",">> \o pow \o <<",">> \o CRLF
StreamLine1(freq)      == <<"$", "A">> \o freq \o <<"0", "0", "1">> \o CRLF
PowerAck(pow)          == <<"$", "P">> \o pow \o <<",">> \o POK \o CRLF
GateAck(digits, code)  == digits \o <<" ", "M", "S", " ">> \o code \o CRLF

StreamLine2(freq, pow)  == <<"$", "A">> \o freq \o <<"0", "0", "1", ",">> \o pow \o CRLF

\* "0010000000.001000" is the payload of the example in the decoder's comment
ExamplePayload ==
    <<"0", "0", "1", "0", "0", "0", "0", "0", "0", "0", ".", "0", "0", "1", "0", "0", "0">>

FreqPayloads ==
    { <<"1", "2">>, <<"1", "0", ".", "5">>, <<"X">>, <<"I", "N", "F">>, ExamplePayload,
      <<"1", "0", "0", "0", "0", "0", "0", "0">>, <<"-", "0", ".", "1">> }
PowPayloads  == { <<"+", "0", "0", "1", "2", "9">>, <<"?">>, <<"S", "N", "A", "N">> }

StreamLines == {StreamLine3(f, p) : f \in FreqPayloads, p \in PowPayloads}
                  \cup {StreamLine1(f) : f \in FreqPayloads}
                  \cup {StreamLine2(<<"1", "2">>, <<"+", "0", "0", "1", "2", "9">>)}

\* "$APIR ,0009999999.999870000,+00127,DOK", the example in the decoder's
\* comment on the DOK branch
DeviceStatusExample ==
    <<"$", "A", "P", "I", "R", " ", ",">>
      \o <<"0", "0", "0", "9", "9", "9", "9", "9", "9", "9", ".",
           "9", "9", "9", "8", "7", "0", "0", "0", "0", ",">>
      \o <<"+", "0", "0", "1", "2", "7", ",">> \o DOK

AckLines ==
    { PowerAck(<<"+", "0", "0", "1", "2", "7">>),
      PowerAck(<<"?">>),
      GateAck(<<"0", "0", "0", "1", "0", "0", "0">>, GOK),
      GateAck(<<"0", "0", "0", "0", "0", "0", "0">>, AOK),
      GOK \o CRLF,
      <<"$", "A", "P", "I", "R", " ", ",">> \o DOK \o CRLF,
      <<"$", "Q", "I", "E", "M", "L", ",">> \o DOK \o CRLF,
      DeviceStatusExample \o CRLF,
      <<"$", "B", "P", "O", "K", ",">> \o DOK \o CRLF,
      <<"$", "Q", "P", "O", "K", ",">> \o DOK \o CRLF,
      LPF_ON_EOK \o CRLF,
      <<"L", "P", "F", " ", "O", "F", "F", " ">> \o EOK \o CRLF,
      CH1_LPF_ON_COK \o CRLF,
      <<"C", "H", "2", " ", "L", "P", "F", " ", "O", "N", " ">> \o COK \o CRLF,
      <<"C", "H", "1", " ", "I", "M", "P", " ">> \o COK \o CRLF,
      <<"R", "E", "F", " ">> \o EOK \o CRLF,
      <<"L", "P", "F", " ">> \o POK \o <<" ">> \o EOK \o CRLF }

OtherLines ==
    { <<"H", "E", "L", "L", "O">> \o CRLF, <<"R", "O", "K">> \o CRLF,
      <<"A", "B", "1", "2", "C", "D", "E">> \o CRLF,
      <<"$", "P", "0", "1", "2", "9">> \o POK \o <<"1">> \o CRLF }

\* lines framed as a prefix of 2 characters, a decimal payload and a suffix
\* of 3 characters (stream) or of 4 characters ending in POK (power reply)
Framed(frame) == frame.prefix \o frame.payload \o frame.suffix \o CRLF

StreamFrames ==
    [prefix : {<<"$", "A">>, <<"$", "B">>, <<" ", "$">>},
     payload : {<<"1", "2">>, <<"1", "0", ".", "5">>},
     suffix : {<<"0", "0", "1">>, <<"9", "9", "9">>}]

PowerFrames ==
    [prefix : {<<"$", "P">>, <<" ", "$">>},
     payload : {<<"1", "2">>, <<"1", "0", ".", "5">>},
     suffix : {<<",">> \o POK, <<"X">> \o POK}]

FramedLines == {Framed(frame) : frame \in StreamFrames \cup PowerFrames}

Lines == StreamLines \cup AckLines \cup OtherLines \cup FramedLines

(***************************************************************************)
(* fa5usbdata.Commands and the commands the window enqueues.  A queued     *)
(* command is a member of the enumeration or a literal string.             *)
(***************************************************************************)
Commands ==
    [GET_GATE_TIME_SETTING   |-> "$G*",
     GET_FREQ_POWER_SETTINGS |-> "$D*",
     SET_CH1_FREQ_AND_POWER  |-> "$C0101*",
     CH1_LPF_ON              |-> "$C0505*",
     CH1_LPF_OFF             |-> "$C0606*"]

EnumCommand(name) == [isstr |-> FALSE, text |-> name]
StrCommand(text)  == [isstr |-> TRUE, text |-> text]

\* send_command: str(command.value) unless the command is a str already
Payload(command) == IF command.isstr THEN command.text ELSE Commands[command.text]

Payloads(q) == [i \in 1..Len(q) |-> Payload(q[i])]

\* texts of the send box (send_data_text) the operator may have typed
UserTexts == {"$R*"}

\* clicked handlers that enqueue, and what each hands to
\* send_to_command_buffer, in order
Handlers == {"channel_change_ch1", "get_settings_from_device", "toggle_lpf"}

HandlerCommands(h, log) ==
    IF h = "channel_change_ch1"
    THEN << EnumCommand("SET_CH1_FREQ_AND_POWER"), EnumCommand("GET_FREQ_POWER_SETTINGS") >>
    ELSE IF h = "get_settings_from_device"
    THEN << EnumCommand("GET_FREQ_POWER_SETTINGS") >>
    ELSE << IF log.latest_settings.lpf = True
            THEN EnumCommand("CH1_LPF_OFF") ELSE EnumCommand("CH1_LPF_ON"),
            EnumCommand("GET_FREQ_POWER_SETTINGS") >>

(***************************************************************************)
(* fa5usbdata.make_gate_time_command and the gate times the window offers  *)
(***************************************************************************)
\* str(n) of an integer given by its sign and its digits
StrOfInt(neg, ds) ==
    IF ds = << >> THEN <<"0">>
    ELSE (IF neg THEN <<"-">> ELSE << >>) \o [i \in 1..Len(ds) |-> DigitChars[ds[i] + 1]]

\* s.zfill(width): zeros after the sign, if any, up to width characters
zfill(s, width) ==
    IF Len(s) >= width THEN s
    ELSE IF HasSign(s) THEN <<s[1]>> \o [i \in 1..(width - Len(s)) |-> "0"] \o Tail(s)
    ELSE [i \in 1..(width - Len(s)) |-> "0"] \o s

\* float(gatetime) * 1000 of a finite value.  The product is kept exact:
\* for every text of comboBox_gatetime the binary64 product is the integer
\* the decimal product gives (0.1 * 1000 is 100.0)
Thousandfold(v) == IF v.digits = << >> THEN v ELSE [v EXCEPT !.exp = v.exp + 3]

\* int(x) of a finite x: the digits left of the point, truncating toward 0
IntDigits(v) ==
    IF v.exp >= 0 THEN v.digits \o Zeros(v.exp)
    ELSE SubSeq(v.digits, 1, Len(v.digits) + v.exp)

\* "$A" + value_string + "*"
GateTimeCommand_short(v) ==
    <<"$", "A">> \o zfill(StrOfInt(v.neg /\ IntDigits(v) # << >>, IntDigits(v)), 4) \o <<"*">>

\* value_string = str(int(float(gatetime) * 1000)).zfill(5);
\* return "$A" + value_string + "*"
GateTimeCommand(v) ==
    <<"$", "A">> \o zfill(StrOfInt(v.neg /\ IntDigits(v) # << >>, IntDigits(v)), 5) \o <<"*">>

\* float() raises ValueError on a text that is no number, int() raises on
\* an infinity or a NaN: ok = FALSE
GateTimeOfFloat(x) ==
    IF x.ok /\ x.val.kind = "num"
    THEN [ok |-> TRUE, val |-> GateTimeCommand(Thousandfold(x.val))]
    ELSE [ok |-> FALSE, val |-> << >>]

make_gate_time_command(gatetime) == GateTimeOfFloat(DecimalOf(gatetime))

\* the items of comboBox_gatetime
SEC == <<" ", "s", "e", "c", ".">>

GateTimeItems ==
    { <<"0", ".", "1">> \o SEC, <<"0", ".", "2">> \o SEC, <<"0", ".", "5">> \o SEC,
      <<"1">> \o SEC, <<"2">> \o SEC, <<"5">> \o SEC,
      <<"1", "0">> \o SEC, <<"2", "0">> \o SEC }

\* a str object holding the characters of s
RECURSIVE Str(_)
Str(s) == IF s = << >> THEN "" ELSE Head(s) \o Str(Tail(s))

ERROR_SERIAL_EXCEPTION ==
    <<"E", "R", "R", "O", "R", "_", "S", "E", "R", "I", "A", "L", "_",
      "E", "X", "C", "E", "P", "T", "I", "O", "N">>

(***************************************************************************)
(* State                                                                   *)
(***************************************************************************)
VARIABLES
    now,          \* time.time(), in ticks
    ml,           \* ui_main.ml, the MeasureLog of the application
    calls,        \* number of add_string calls made so far
    last_call,    \* the last add_string call: its line and whether it raised
    self_settings,  \* FASettings.update_settings: the snapshot merged into
    delta,          \* FASettings.update_settings: the settings argument
    merges,         \* how many times delta has been merged into self_settings
    is_serial_port_established,
    get_FA_settings,
    waiting_for_command,
    command_queue,
    start_button,   \* start_button.isEnabled()
    end_button,     \* end_button.isEnabled()
    workers,        \* every Worker created so far; self.worker is the last
    signals,        \* serial_data signals emitted and not yet delivered
    written,        \* the texts handed to SERIAL_CON.write, in order
    enqueued,       \* every command handed to send_to_command_buffer, in order
    session_open,   \* a start has succeeded and no stop has followed it
    clicks,         \* number of command buttons clicked so far
    shown           \* the sequences of ml as the window last read them

logVars   == <<now, ml, calls, last_call>>
mergeVars == <<self_settings, delta, merges>>
uiVars    == <<is_serial_port_established, get_FA_settings, waiting_for_command,
               command_queue, start_button, end_button, workers, signals,
               written, enqueued, session_open, clicks>>

vars == <<now, ml, calls, last_call, self_settings, delta, merges,
          is_serial_port_established, get_FA_settings, waiting_for_command,
          command_queue, start_button, end_button, workers, signals,
          written, enqueued, session_open, clicks, shown>>

\* what a read of the three sequences of a log returns
View(log) == [strings |-> log.strings, frequencies |-> log.frequencies,
              power |-> log.power]

NoCall == [line |-> << >>, raised |-> FALSE]

\* the module-level state of ui_main and the window after MainWindow.__init__
ProgramInit ==
    /\ now = 0
    /\ ml = NewMeasureLog(0)
    /\ calls = 0
    /\ last_call = NoCall
    /\ is_serial_port_established = FALSE
    /\ get_FA_settings = TRUE
    /\ waiting_for_command = TRUE
    /\ command_queue = << >>
    /\ start_button = TRUE
    /\ end_button = FALSE
    /\ workers = << >>
    /\ signals = << >>
    /\ written = << >>
    /\ enqueued = << >>
    /\ session_open = FALSE
    /\ clicks = 0
    /\ shown = View(ml)

NoMerge ==
    /\ self_settings = FASettings
    /\ delta = FASettings
    /\ merges = 0

(***************************************************************************)
(* The log driven by one producer: add_string from the reader and          *)
(* reset_on_next_read from the reset button (ui_main.reset_stats).         *)
(***************************************************************************)
Tick ==
    /\ now < MaxTime
    /\ now' = now + 1
    /\ UNCHANGED <<ml, calls, last_call>>
    /\ UNCHANGED <<mergeVars, uiVars, shown>>

LogAddString(line) ==
    /\ calls < MaxCalls
    /\ LET r == add_string(ml, line, now)
       IN  /\ ml' = r.ml
           /\ last_call' = [line |-> line, raised |-> r.raised]
    /\ calls' = calls + 1
    /\ UNCHANGED now
    /\ UNCHANGED <<mergeVars, uiVars, shown>>

\* ui_main.reset_stats, the slot of the reset button
reset_stats ==
    /\ ml' = reset_on_next_read(ml)
    /\ UNCHANGED <<now, calls, last_call>>
    /\ UNCHANGED <<mergeVars, uiVars, shown>>

LogNext ==
    \/ Tick
    \/ \E line \in Lines : LogAddString(line)
    \/ reset_stats

LogInit == ProgramInit /\ NoMerge

SpecLog == LogInit /\ [][LogNext]_vars

(***************************************************************************)
(* The settings merge on its own: every snapshot with every delta.         *)
(***************************************************************************)
Channels  == {None, "Channel: 1", "Channel: 2", "Channel: Internal Clock"}
OptBools  == {None, True, False}

\* a snapshot's gate time is 0 or a positive value a delta has set
Snapshots ==
    [channel : Channels, imp50 : OptBools, precision : OptBools,
     ext_reference_osc : OptBools, lpf : OptBools, gate_time : 0..MaxGate]

Deltas ==
    [channel : Channels, imp50 : OptBools, precision : OptBools,
     ext_reference_osc : OptBools, lpf : OptBools, gate_time : -1..MaxGate]

MergeInit ==
    /\ ProgramInit
    /\ self_settings \in Snapshots
    /\ delta \in Deltas
    /\ merges = 0

Merge ==
    /\ merges < 2
    /\ self_settings' = update_settings(self_settings, delta)
    /\ merges' = merges + 1
    /\ UNCHANGED <<delta, logVars, uiVars, shown>>

SpecMerge == MergeInit /\ [][Merge]_vars


(***************************************************************************)
(* ui_main: the command scheduler.  The scheduler state is the queue, the  *)
(* waiting flag and the texts written to the transport so far.             *)
(***************************************************************************)
Scheduler == [command_queue |-> command_queue,
              waiting_for_command |-> waiting_for_command,
              written |-> written]

\* send_command with the pop branch leaving the flag as it finds it
send_command_idle(sch, established) ==
    IF Len(sch.command_queue) > 0
    THEN LET command == Head(sch.command_queue)
             popped == [sch EXCEPT !.command_queue = Tail(@)]
         IN  IF established
             THEN [popped EXCEPT !.written = Append(@, Payload(command))]
             ELSE popped
    ELSE [sch EXCEPT !.waiting_for_command = TRUE]

\* send_command with pop() in place of pop(0)
send_command_lifo(sch, established) ==
    IF Len(sch.command_queue) > 0
    THEN LET n == Len(sch.command_queue)
             command == sch.command_queue[n]
             popped == [sch EXCEPT !.command_queue = SubSeq(@, 1, n - 1),
                                   !.waiting_for_command = FALSE]
         IN  IF established
             THEN [popped EXCEPT !.written = Append(@, Payload(command))]
             ELSE popped
    ELSE [sch EXCEPT !.waiting_for_command = TRUE]

\* send_command with the empty-queue branch clearing the flag like the
\* other two branches
send_command_busy(sch, established) ==
    IF Len(sch.command_queue) > 0
    THEN LET command == Head(sch.command_queue)
             popped == [sch EXCEPT !.command_queue = Tail(@),
                                   !.waiting_for_command = FALSE]
         IN  IF established
             THEN [popped EXCEPT !.written = Append(@, Payload(command))]
             ELSE popped
    ELSE [sch EXCEPT !.waiting_for_command = FALSE]

\* MainWindow.send_command() (no caller passes command_str)
send_command(sch, established) ==
    IF Len(sch.command_queue) > 0
    THEN LET command == Head(sch.command_queue)
             popped == [sch EXCEPT !.command_queue = Tail(@),
                                   !.waiting_for_command = FALSE]
         IN  IF established
             THEN [popped EXCEPT !.written = Append(@, Payload(command))]
             ELSE popped
    ELSE [sch EXCEPT !.waiting_for_command = TRUE]

\* send_to_command_buffer with its two commented-out lines restored:
\* if waiting_for_command: self.send_command()
send_to_command_buffer_eager(sch, command, established) ==
    LET queued == [sch EXCEPT !.command_queue = Append(@, command)]
    IN  IF queued.waiting_for_command THEN send_command(queued, established)
        ELSE queued

\* MainWindow.send_to_command_buffer(command)
send_to_command_buffer(sch, command, established) ==
    [sch EXCEPT !.command_queue = Append(@, command)]

RECURSIVE EnqueueAll(_, _, _)
EnqueueAll(sch, commands, established) ==
    IF commands = << >> THEN sch
    ELSE EnqueueAll(send_to_command_buffer(sch, Head(commands), established),
                    Tail(commands), established)

\* on_end_button_clicked without `is_serial_port_established = False`
on_end_button_clicked_keep(established) ==
    [established |-> established, start_button |-> TRUE, end_button |-> FALSE]

\* MainWindow.on_end_button_clicked: the flag and the two buttons after it
on_end_button_clicked(established) ==
    [established |-> FALSE, start_button |-> TRUE, end_button |-> FALSE]

\* the test of read_data_from_thread that releases the next command:
\* serial_data[0] == "$" or serial_data[-4:-2] == 'OK'
Releases(serial_data) ==
    Slice(serial_data, 0, 1) = <<"$">> \/ Slice(serial_data, -4, -2) = OK

\* the scheduler after read_data_from_thread(serial_data) when the
\* connection is established
HandleLine(sch, serial_data, get_settings) ==
    LET s1 == IF get_settings
              THEN EnqueueAll(sch, << EnumCommand("GET_FREQ_POWER_SETTINGS"),
                                      EnumCommand("GET_GATE_TIME_SETTING") >>, TRUE)
              ELSE sch
    IN  IF Releases(serial_data) THEN send_command(s1, TRUE) ELSE s1

\* what a handler run has handed to send_to_command_buffer
AutoCommands(get_settings) ==
    IF get_settings
    THEN << EnumCommand("GET_FREQ_POWER_SETTINGS"), EnumCommand("GET_GATE_TIME_SETTING") >>
    ELSE << >>

(***************************************************************************)
(* The window's slots (GUI thread)                                         *)
(***************************************************************************)
\* locals holds the local variables of the add_string call a reader is in
NoLocals == [timestamp |-> 0, measurements |-> << >>, new_settings |-> FASettings]
NewWorker == [working |-> TRUE, pc |-> "loop", line |-> << >>, locals |-> NoLocals]

\* MainWindow.start_loop: no port selected, the port fails to open, or the
\* connection is established and a new Worker starts in its own thread
start_loop(outcome) ==
    /\ start_button
    /\ Len(workers) < MaxStarts
    /\ end_button' = TRUE
    /\ IF outcome = "ok"
       THEN /\ is_serial_port_established' = TRUE
            /\ get_FA_settings' = TRUE
            /\ workers' = Append(workers, NewWorker)
            /\ session_open' = TRUE
       ELSE UNCHANGED <<is_serial_port_established, get_FA_settings, workers,
                        session_open>>
    /\ UNCHANGED <<waiting_for_command, command_queue, start_button, signals,
                   written, enqueued, clicks>>
    /\ UNCHANGED <<logVars, mergeVars, shown>>

\* MainWindow.stop_loop: self.worker.working = False, then
\* on_end_button_clicked; with no worker yet the first statement raises
stop_loop ==
    /\ end_button
    /\ IF workers = << >>
       THEN UNCHANGED <<workers, is_serial_port_established, start_button,
                        end_button, session_open>>
       ELSE LET after == on_end_button_clicked(is_serial_port_established)
            IN  /\ workers' = [workers EXCEPT ![Len(workers)].working = FALSE]
                /\ is_serial_port_established' = after.established
                /\ start_button' = after.start_button
                /\ end_button' = after.end_button
                /\ session_open' = FALSE
    /\ UNCHANGED <<get_FA_settings, waiting_for_command, command_queue, signals,
                   written, enqueued, clicks>>
    /\ UNCHANGED <<logVars, mergeVars, shown>>

\* a command button: its handler calls send_to_command_buffer
Click(h) ==
    /\ clicks < MaxClicks
    /\ clicks' = clicks + 1
    /\ LET cmds == HandlerCommands(h, ml)
           sch == EnqueueAll(Scheduler, cmds, is_serial_port_established)
       IN  /\ command_queue' = sch.command_queue
           /\ waiting_for_command' = sch.waiting_for_command
           /\ written' = sch.written
           /\ enqueued' = enqueued \o cmds
    /\ UNCHANGED <<is_serial_port_established, get_FA_settings, start_button,
                   end_button, workers, signals, session_open>>
    /\ UNCHANGED <<logVars, mergeVars, shown>>

\* MainWindow.write_data_button: the send box, only while established
write_data_button(text) ==
    /\ clicks < MaxClicks
    /\ clicks' = clicks + 1
    /\ IF is_serial_port_established
       THEN LET sch == send_to_command_buffer(Scheduler, StrCommand(text),
                                              is_serial_port_established)
            IN  /\ command_queue' = sch.command_queue
                /\ waiting_for_command' = sch.waiting_for_command
                /\ written' = sch.written
                /\ enqueued' = Append(enqueued, StrCommand(text))
       ELSE UNCHANGED <<command_queue, waiting_for_command, written, enqueued>>
    /\ UNCHANGED <<is_serial_port_established, get_FA_settings, start_button,
                   end_button, workers, signals, session_open>>
    /\ UNCHANGED <<logVars, mergeVars, shown>>

\* MainWindow.set_gate_time, the slot of button_command_setgatetime, with
\* time_text the current text of comboBox_gatetime: the command is handed
\* to send_to_command_buffer as a str; an exception of
\* make_gate_time_command leaves the slot before the call
set_gate_time(time_text) ==
    /\ clicks < MaxClicks
    /\ clicks' = clicks + 1
    /\ LET command_gate_time == make_gate_time_command(Slice(time_text, 0, -5))
       IN  IF command_gate_time.ok
           THEN LET command == StrCommand(Str(command_gate_time.val))
                    sch == send_to_command_buffer(Scheduler, command,
                                                  is_serial_port_established)
                IN  /\ command_queue' = sch.command_queue
                    /\ waiting_for_command' = sch.waiting_for_command
                    /\ written' = sch.written
                    /\ enqueued' = Append(enqueued, command)
           ELSE UNCHANGED <<command_queue, waiting_for_command, written, enqueued>>
    /\ UNCHANGED <<is_serial_port_established, get_FA_settings, start_button,
                   end_button, workers, signals, session_open>>
    /\ UNCHANGED <<logVars, mergeVars, shown>>

\* MainWindow.read_data_from_thread(serial_data): the slot of the worker's
\* serial_data signal, run for the oldest undelivered signal
read_data_from_thread ==
    /\ signals # << >>
    /\ signals' = Tail(signals)
    /\ LET serial_data == Head(signals)
       IN  IF ~Contains(serial_data, ERROR_SERIAL_EXCEPTION)
              /\ is_serial_port_established
           THEN LET sch == HandleLine(Scheduler, serial_data, get_FA_settings)
                IN  /\ command_queue' = sch.command_queue
                    /\ waiting_for_command' = sch.waiting_for_command
                    /\ written' = sch.written
                    /\ enqueued' = enqueued \o AutoCommands(get_FA_settings)
                    /\ get_FA_settings' = FALSE
                    /\ start_button' = FALSE
           ELSE UNCHANGED <<command_queue, waiting_for_command, written,
                            enqueued, get_FA_settings, start_button>>
    /\ UNCHANGED <<is_serial_port_established, end_button, workers,
                   session_open, clicks>>
    /\ UNCHANGED <<logVars, mergeVars, shown>>

(***************************************************************************)
(* Worker.work (reader thread), one step per statement that another        *)
(* thread can observe                                                      *)
(***************************************************************************)
\* lines the transport delivers to the reader
WireLines ==
    { StreamLine3(<<"1", "2">>, <<"+", "0", "0", "1", "2", "9">>),
      LPF_ON_EOK \o CRLF,
      GOK \o CRLF,
      <<"H", "E", "L", "L", "O">> \o CRLF }

Reading == {w \in 1..Len(workers) : workers[w].pc = "add"}

\* the thread starts work(): the first test of `while self.working`
WorkerLoop(w) ==
    /\ workers[w].pc = "loop"
    /\ workers' = [workers EXCEPT ![w].pc = IF workers[w].working THEN "read"
                                            ELSE "close"]
    /\ UNCHANGED <<is_serial_port_established, get_FA_settings,
                   waiting_for_command, command_queue, start_button, end_button,
                   signals, written, enqueued, session_open, clicks>>
    /\ UNCHANGED <<logVars, mergeVars, shown>>

\* line = self.read_line() returns a complete line
WorkerReadLine(w, line) ==
    /\ workers[w].pc = "read"
    /\ calls + Cardinality(Reading) < MaxLines
    /\ workers' = [workers EXCEPT ![w].pc = "add", ![w].line = line]
    /\ UNCHANGED <<is_serial_port_established, get_FA_settings,
                   waiting_for_command, command_queue, start_button, end_button,
                   signals, written, enqueued, session_open, clicks>>
    /\ UNCHANGED <<logVars, mergeVars, shown>>

\* the handler emits the error text and the loop goes on reading
WorkerSerialException_retry(w) ==
    /\ workers[w].pc = "read"
    /\ signals' = Append(signals, ERROR_SERIAL_EXCEPTION)
    /\ UNCHANGED <<is_serial_port_established, get_FA_settings,
                   waiting_for_command, command_queue, start_button, end_button,
                   workers, written, enqueued, session_open, clicks>>
    /\ UNCHANGED <<logVars, mergeVars, shown>>

\* read_line raises SerialException: the handler emits the error text and
\* clears self.working, so the next test of the loop leaves it
WorkerSerialException(w) ==
    /\ workers[w].pc = "read"
    /\ workers' = [workers EXCEPT ![w].pc = "close", ![w].working = FALSE]
    /\ signals' = Append(signals, ERROR_SERIAL_EXCEPTION)
    /\ UNCHANGED <<is_serial_port_established, get_FA_settings,
                   waiting_for_command, command_queue, start_button, end_button,
                   written, enqueued, session_open, clicks>>
    /\ UNCHANGED <<logVars, mergeVars, shown>>

\* ml.add_string(line); self.serial_data.emit(line); then the next test of
\* `while self.working`.  An exception other than SerialException is not
\* caught by work: it ends the thread's loop before the emit and before
\* SERIAL_CON.close()
WorkerAddString(w) ==
    /\ workers[w].pc = "add"
    /\ LET r == add_string(ml, workers[w].line, now)
       IN  /\ ml' = r.ml
           /\ last_call' = [line |-> workers[w].line, raised |-> r.raised]
           /\ IF r.raised
              THEN /\ workers' = [workers EXCEPT ![w].pc = "crashed"]
                   /\ UNCHANGED signals
              ELSE /\ workers' = [workers EXCEPT
                                    ![w].pc = IF workers[w].working THEN "read"
                                              ELSE "close"]
                   /\ signals' = Append(signals, workers[w].line)
    /\ calls' = calls + 1
    /\ UNCHANGED now
    /\ UNCHANGED <<is_serial_port_established, get_FA_settings,
                   waiting_for_command, command_queue, start_button, end_button,
                   written, enqueued, session_open, clicks>>
    /\ UNCHANGED <<mergeVars, shown>>

\* SERIAL_CON.close() after the loop
WorkerClose(w) ==
    /\ workers[w].pc = "close"
    /\ workers' = [workers EXCEPT ![w].pc = "done"]
    /\ UNCHANGED <<is_serial_port_established, get_FA_settings,
                   waiting_for_command, command_queue, start_button, end_button,
                   signals, written, enqueued, session_open, clicks>>
    /\ UNCHANGED <<logVars, mergeVars, shown>>

\* The reset button (reset_stats) touches the log only and the clock matters
\* to the log only: SpecLog explores both, here the clock stands still.
Next ==
    \/ \E outcome \in {"ok", "no_port", "open_failed"} : start_loop(outcome)
    \/ stop_loop
    \/ \E h \in Handlers : Click(h)
    \/ \E text \in UserTexts : write_data_button(text)
    \/ read_data_from_thread
    \/ \E w \in 1..Len(workers) :
          \/ WorkerLoop(w)
          \/ \E line \in WireLines : WorkerReadLine(w, line)
          \/ WorkerSerialException(w)
          \/ WorkerAddString(w)
          \/ WorkerClose(w)

Init == ProgramInit /\ NoMerge

Spec == Init /\ [][Next]_vars

(***************************************************************************)
(* One session on its own: the start button, the command buttons and the   *)
(* gate-time button, and the reader handing the device's lines to the      *)
(* window.  No stop and no transport error; the lines are the kinds the    *)
(* scheduler tells apart.                                                  *)
(***************************************************************************)
SessionLines ==
    { StreamLine3(<<"1", "2">>, <<"+", "0", "0", "1", "2", "9">>),
      <<" ">> \o StreamLine1(<<"1", "2">>),
      LPF_ON_EOK \o CRLF,
      <<"H", "E", "L", "L", "O">> \o CRLF,
      <<"R", "O", "K">> \o CRLF }

SessionNext ==
    \/ start_loop("ok")
    \/ \E h \in Handlers : Click(h)
    \/ \E text \in UserTexts : write_data_button(text)
    \/ \E time_text \in GateTimeItems : set_gate_time(time_text)
    \/ read_data_from_thread
    \/ \E w \in 1..Len(workers) :
          \/ WorkerLoop(w)
          \/ \E line \in SessionLines : WorkerReadLine(w, line)
          \/ WorkerAddString(w)

SessionInit == ProgramInit /\ NoMerge

SpecSession == SessionInit /\ [][SessionNext]_vars

(***************************************************************************)
(* A session that never ends by itself: the device may send lines for      *)
(* ever.  The state stays finite because the reader takes a line only      *)
(* while fewer than MaxKept signals wait for the window and the log has    *)
(* room for it (fewer than MaxKept lines, or a reset pending from the      *)
(* reset button).                                                          *)
(***************************************************************************)
MaxKept == 1       \* lines kept in the log, and signals pending, at a time

LiveLines ==
    { StreamLine1(<<"1", "2">>),
      <<" ">> \o StreamLine1(<<"1", "2">>),
      LPF_ON_EOK \o CRLF,
      <<"H", "E", "L", "L", "O">> \o CRLF }

\* line = self.read_line() returns a complete line
ReaderReadLine(w, line) ==
    /\ workers[w].pc = "read"
    /\ Len(signals) < MaxKept
    /\ ml.reset_on_the_next_read \/ Len(ml.strings) < MaxKept
    /\ workers' = [workers EXCEPT ![w].pc = "add", ![w].line = line]
    /\ UNCHANGED <<is_serial_port_established, get_FA_settings,
                   waiting_for_command, command_queue, start_button, end_button,
                   signals, written, enqueued, session_open, clicks>>
    /\ UNCHANGED <<logVars, mergeVars, shown>>

\* ml.add_string(line); self.serial_data.emit(line); then the next test of
\* `while self.working`
ReaderAddString(w) ==
    /\ workers[w].pc = "add"
    /\ LET r == add_string(ml, workers[w].line, now)
       IN  /\ ml' = r.ml
           /\ last_call' = [line |-> workers[w].line, raised |-> r.raised]
           /\ IF r.raised
              THEN /\ workers' = [workers EXCEPT ![w].pc = "crashed"]
                   /\ UNCHANGED signals
              ELSE /\ workers' = [workers EXCEPT
                                    ![w].pc = IF workers[w].working THEN "read"
                                              ELSE "close"]
                   /\ signals' = Append(signals, workers[w].line)
    /\ UNCHANGED <<now, calls>>
    /\ UNCHANGED <<is_serial_port_established, get_FA_settings,
                   waiting_for_command, command_queue, start_button, end_button,
                   written, enqueued, session_open, clicks>>
    /\ UNCHANGED <<mergeVars, shown>>

\* the steps the reader's thread takes by itself
ReaderRuns(w) == w <= Len(workers) /\ (WorkerLoop(w) \/ ReaderAddString(w))

LiveNext ==
    \/ start_loop("ok")
    \/ \E h \in Handlers : Click(h)
    \/ reset_stats
    \/ read_data_from_thread
    \/ \E w \in 1..MaxStarts : ReaderRuns(w)
    \/ \E w \in 1..Len(workers) : \E line \in LiveLines : ReaderReadLine(w, line)

LiveInit == ProgramInit /\ NoMerge

\* the Qt event loop delivers every pending signal, and the reader's thread
\* is scheduled while it has a step of its own to take (the one of
\* ReaderAddString(w) with its enabling condition written out); when the
\* device sends its next line is left open
Delivered == WF_vars(read_data_from_thread)
ReaderScheduled(w) ==
    /\ WF_vars(w <= Len(workers) /\ WorkerLoop(w))
    /\ \/ []<>(~(w <= Len(workers) /\ workers[w].pc = "add"))
       \/ []<><<w <= Len(workers) /\ ReaderAddString(w)>>_vars

SpecLive ==
    /\ LiveInit
    /\ [][LiveNext]_vars
    /\ Delivered
    /\ \A w \in 1..MaxStarts : ReaderScheduled(w)

(***************************************************************************)
(* The reader inside add_string, statement by statement, next to the       *)
(* window reading the log.  The reader's thread and the GUI thread share   *)
(* ml without a lock, so the window can run between any two statements of  *)
(* add_string and of the reset it performs.                                *)
(***************************************************************************)
RaceLines ==
    { StreamLine3(<<"1", "2">>, <<"+", "0", "0", "1", "2", "9">>),
      <<"H", "E", "L", "L", "O">> \o CRLF }

RaceUnchanged ==
    UNCHANGED <<now, mergeVars, is_serial_port_established, get_FA_settings,
                waiting_for_command, command_queue, start_button, end_button,
                written, enqueued, session_open, clicks, shown>>

\* if self.reset_on_the_next_read: self.reset(), whose first statement is
\* self.strings = []
ResetStrings(w) ==
    /\ workers[w].pc = "add"
    /\ ml.reset_on_the_next_read
    /\ ml' = [ml EXCEPT !.strings = << >>]
    /\ workers' = [workers EXCEPT ![w].pc = "reset_frequencies"]
    /\ calls' = calls + 1
    /\ UNCHANGED <<last_call, signals>>
    /\ RaceUnchanged

\* self.frequencies = []
ResetFrequencies(w) ==
    /\ workers[w].pc = "reset_frequencies"
    /\ ml' = [ml EXCEPT !.frequencies = << >>]
    /\ workers' = [workers EXCEPT ![w].pc = "reset_power"]
    /\ UNCHANGED <<calls, last_call, signals>>
    /\ RaceUnchanged

\* self.power = []
ResetPower(w) ==
    /\ workers[w].pc = "reset_power"
    /\ ml' = [ml EXCEPT !.power = << >>]
    /\ workers' = [workers EXCEPT ![w].pc = "reset_time"]
    /\ UNCHANGED <<calls, last_call, signals>>
    /\ RaceUnchanged

\* self.start_time = time.time(); self.reset_on_the_next_read = False
ResetTime(w) ==
    /\ workers[w].pc = "reset_time"
    /\ ml' = [ml EXCEPT !.start_time = now, !.reset_on_the_next_read = FALSE]
    /\ workers' = [workers EXCEPT ![w].pc = "append"]
    /\ UNCHANGED <<calls, last_call, signals>>
    /\ RaceUnchanged

\* timestamp = ...; preprocess_string(...); self.strings.append(...): the
\* first statements of add_string that another thread can observe.  An
\* exception of the decoder leaves add_string and work
AppendLine(w) ==
    /\ \/ workers[w].pc = "add" /\ ~ml.reset_on_the_next_read /\ calls' = calls + 1
       \/ workers[w].pc = "append" /\ calls' = calls
    /\ LET timestamp == now - ml.start_time
           decoded == preprocess_string(workers[w].line)
       IN  IF decoded.raised
           THEN /\ workers' = [workers EXCEPT ![w].pc = "crashed"]
                /\ last_call' = [line |-> workers[w].line, raised |-> TRUE]
                /\ UNCHANGED ml
           ELSE /\ ml' = [ml EXCEPT !.strings =
                                      Append(@, Entry(workers[w].line, timestamp))]
                /\ workers' = [workers EXCEPT
                                 ![w].pc = "settings",
                                 ![w].locals = [timestamp |-> timestamp,
                                                measurements |-> decoded.measurements,
                                                new_settings |-> decoded.new_settings]]
                /\ UNCHANGED last_call
    /\ UNCHANGED signals
    /\ RaceUnchanged

\* self.latest_settings.update_settings(new_settings)
UpdateSettings(w) ==
    /\ workers[w].pc = "settings"
    /\ ml' = [ml EXCEPT !.latest_settings =
                          update_settings(@, workers[w].locals.new_settings)]
    /\ workers' = [workers EXCEPT ![w].pc = "measure"]
    /\ UNCHANGED <<calls, last_call, signals>>
    /\ RaceUnchanged

\* one pass of the for loop over the measurements
AddNext(w) ==
    /\ workers[w].pc = "measure"
    /\ workers[w].locals.measurements # << >>
    /\ ml' = AddMeasurement(ml, Head(workers[w].locals.measurements),
                            workers[w].locals.timestamp)
    /\ workers' = [workers EXCEPT ![w].locals.measurements = Tail(@)]
    /\ UNCHANGED <<calls, last_call, signals>>
    /\ RaceUnchanged

\* the loop is over and add_string returns: self.serial_data.emit(line) and
\* the next test of `while self.working`
AddReturns(w) ==
    /\ workers[w].pc = "measure"
    /\ workers[w].locals.measurements = << >>
    /\ workers' = [workers EXCEPT
                     ![w].pc = IF workers[w].working THEN "read" ELSE "close",
                     ![w].locals = NoLocals]
    /\ signals' = Append(signals, workers[w].line)
    /\ last_call' = [line |-> workers[w].line, raised |-> FALSE]
    /\ UNCHANGED <<ml, calls>>
    /\ RaceUnchanged

\* the window reads the log (get_strings, get_frequencies, get_power) in
\* the GUI thread, whatever statement the reader is at
ReadSession ==
    /\ shown' = View(ml)
    /\ UNCHANGED <<logVars, mergeVars, uiVars>>

RaceNext ==
    \/ start_loop("ok")
    \/ reset_stats
    \/ ReadSession
    \/ \E w \in 1..Len(workers) :
          \/ WorkerLoop(w)
          \/ \E line \in RaceLines : WorkerReadLine(w, line)
          \/ ResetStrings(w)
          \/ ResetFrequencies(w)
          \/ ResetPower(w)
          \/ ResetTime(w)
          \/ AppendLine(w)
          \/ UpdateSettings(w)
          \/ AddNext(w)
          \/ AddReturns(w)

RaceInit == ProgramInit /\ NoMerge

SpecRace == RaceInit /\ [][RaceNext]_vars

(***************************************************************************)
(* The readers and the start and stop buttons on their own, with the       *)
(* scheduling the threads get: a reader that can take a step takes it, and *)
(* a read in progress ends, with a line or with a transport exception.     *)
(***************************************************************************)
CancelLines ==
    { StreamLine3(<<"1", "2">>, <<"+", "0", "0", "1", "2", "9">>), GOK \o CRLF }

\* the steps of reader w
WorkerStep(w) ==
    /\ w <= Len(workers)
    /\ \/ WorkerLoop(w)
       \/ \E line \in CancelLines : WorkerReadLine(w, line)
       \/ WorkerSerialException(w)
       \/ WorkerAddString(w)
       \/ WorkerClose(w)

CancelNext ==
    \/ start_loop("ok")
    \/ stop_loop
    \/ \E w \in 1..MaxStarts : WorkerStep(w)

CancelInit == ProgramInit /\ NoMerge

\* the steps of reader w other than the call of add_string
WorkerMoves(w) ==
    /\ w <= Len(workers)
    /\ \/ WorkerLoop(w)
       \/ \E line \in CancelLines : WorkerReadLine(w, line)
       \/ WorkerSerialException(w)
       \/ WorkerClose(w)

\* reader w is about to call add_string: WorkerAddString(w) is enabled
Runnable(w) == w <= Len(workers) /\ workers[w].pc = "add"

\* the reader's thread is scheduled and the read in progress ends: weak
\* fairness of the steps of reader w, the one of WorkerAddString(w) with
\* its enabling condition written out as Runnable(w)
Scheduled(w) ==
    /\ WF_vars(WorkerMoves(w))
    /\ []<>(~Runnable(w)) \/ []<><<w <= Len(workers) /\ WorkerAddString(w)>>_vars

SpecCancel ==
    CancelInit /\ [][CancelNext]_vars /\ \A w \in 1..MaxStarts : Scheduled(w)


(***************************************************************************)
(* Properties                                                              *)
(***************************************************************************)

\* C1: the texts written to the transport, followed by the texts of the
\* commands still queued, are exactly the texts of the commands enqueued, in
\* the order they were enqueued: what is written is a prefix of what was
\* enqueued, nothing is written twice and nothing leaves the queue unwritten.
C1_FifoPreserved == Payloads(enqueued) = written \o Payloads(command_queue)

\* two different commands have been written and a third is still queued
C1_Witness ==
    /\ Len(written) >= 2
    /\ written[1] # written[2]
    /\ command_queue # << >>

\* a step of read_data_from_thread that handles a line (not the error text)
\* while the connection is established
HandlesLine ==
    /\ signals # << >>
    /\ signals' = Tail(signals)
    /\ ~Contains(Head(signals), ERROR_SERIAL_EXCEPTION)
    /\ is_serial_port_established

C3_NoWriteUnlessEstablished ==
    [][written' # written => is_serial_port_established /\ session_open]_vars

\* after a write the session was stopped with a command still queued and
\* every line received has been handled: the command is still not written
C3_Witness ==
    /\ ~is_serial_port_established
    /\ written # << >>
    /\ command_queue # << >>
    /\ calls = MaxLines
    /\ signals = << >>
    /\ \A w \in 1..Len(workers) : workers[w].pc = "done"

\* C4: when send_command runs on an empty queue (a releasing line is handled
\* after the settings query was queued earlier and the queue has drained)
\* nothing is written, the queue stays empty and waiting_for_command is
\* True, the value that stands for "no command is waiting for an answer".
C4_EmptyReleaseIsNoOp ==
    [][(HandlesLine /\ Releases(Head(signals)) /\ ~get_FA_settings
          /\ command_queue = << >>) =>
          /\ written' = written
          /\ command_queue' = << >>
          /\ waiting_for_command' = TRUE]_vars

\* a write cleared the flag and a later release on the empty queue set it
C4_Witness ==
    /\ written # << >>
    /\ command_queue = << >>
    /\ waiting_for_command = TRUE

OptionalFields == {"channel", "imp50", "precision", "ext_reference_osc", "lpf"}

\* C5: a merge keeps every optional field whose delta is None, keeps the gate
\* time unless the delta's gate time is strictly positive, and changes a
\* field only to the value the delta carries.
C5_MergeNeverRegresses ==
    [][merges' = merges + 1 =>
          /\ \A f \in OptionalFields :
                /\ delta[f] = None => self_settings'[f] = self_settings[f]
                /\ self_settings'[f] # self_settings[f] => self_settings'[f] = delta[f]
          /\ ~(delta.gate_time > 0) => self_settings'.gate_time = self_settings.gate_time
          /\ self_settings'.gate_time # self_settings.gate_time
                => self_settings'.gate_time = delta.gate_time]_vars

\* after a merge: known fields the delta did not carry (channel, imp50, gate
\* time) are still known, next to a field the delta did carry
C5_Witness ==
    /\ merges >= 1
    /\ delta.channel = None /\ self_settings.channel # None
    /\ delta.imp50 = None /\ self_settings.imp50 = True
    /\ delta.gate_time <= 0 /\ self_settings.gate_time > 0
    /\ delta.lpf = False /\ self_settings.lpf = False

\* C6: merging the same delta a second time changes nothing.
C6_MergeIdempotent ==
    [][(merges = 1 /\ merges' = 2) => self_settings' = self_settings]_vars

\* a delta that carries a channel, a flag and a gate time was merged twice
C6_Witness ==
    /\ merges = 2
    /\ delta.channel # None
    /\ delta.precision # None
    /\ delta.gate_time > 0

Sequences3(log) == <<log.strings, log.frequencies, log.power>>

\* C7: while a reset is pending the three sequences change only in an
\* add_string call; that call leaves the raw-line sequence holding exactly
\* its own line and the flag idle; the flag goes idle in no other step.
C7_DeferredReset ==
    [][ml.reset_on_the_next_read =>
          /\ calls' = calls => Sequences3(ml') = Sequences3(ml)
          /\ calls' = calls + 1 =>
                /\ ~ml'.reset_on_the_next_read
                /\ Len(ml'.strings) = 1
                /\ ml'.strings[1][1] = last_call'.line
          /\ ~ml'.reset_on_the_next_read => calls' = calls + 1]_vars

\* the measurements of a line that parse as a finite decimal number, with
\* the value add_string stores for each: Power is the device value over ten
IsNumber(text) == DecimalOf(text).ok /\ DecimalOf(text).val.kind = "num"

Tenth(v) == IF v.digits = << >> THEN v ELSE [v EXCEPT !.exp = v.exp - 1]

RECURSIVE Samples(_, _, _)
Samples(ms, category, timestamp) ==
    IF ms = << >> THEN << >>
    ELSE LET m == Head(ms)
             v == DecimalOf(m.text).val
             rest == Samples(Tail(ms), category, timestamp)
         IN  IF m.category = category /\ IsNumber(m.text)
             THEN << Entry(IF category = POWER THEN Tenth(v) ELSE v, timestamp) >> \o rest
             ELSE rest

\* the sequences an add_string call starts from: empty if a reset was pending
Base(log) == IF log.reset_on_the_next_read THEN << << >>, << >>, << >> >>
             ELSE Sequences3(log)

\* C8: every add_string call appends one entry for its line to the raw-line
\* sequence, merges the decoder's delta into the settings, and appends each
\* measurement that is a number to the sequence of its category with the
\* timestamp of the raw-line entry, a Power value as a tenth of the payload.
C8_AddStringAppends ==
    [][calls' = calls + 1 =>
          LET line == last_call'.line
              decoded == preprocess_string(line)
          IN  /\ Len(ml'.strings) = Len(Base(ml)[1]) + 1
              /\ LET entry == ml'.strings[Len(ml'.strings)]
                 IN  /\ ml'.strings = Append(Base(ml)[1], Entry(line, entry[2]))
                     /\ ml'.frequencies =
                          Base(ml)[2] \o Samples(decoded.measurements, FREQUENCY, entry[2])
                     /\ ml'.power =
                          Base(ml)[3] \o Samples(decoded.measurements, POWER, entry[2])
              /\ ml'.latest_settings =
                    update_settings(ml.latest_settings, decoded.new_settings)]_vars

\* C9: no line ends a reader with an exception and every add_string call
\* returns normally.
C9_NoLineStopsReader ==
    /\ \A w \in 1..Len(workers) : workers[w].pc # "crashed"
    /\ ~last_call.raised

\* a stream line of three comma-separated fields: a "$", no "OK"
IsStream3(line) ==
    LET s == Strip(line)
    IN  Contains(s, <<"$">>) /\ ~Contains(s, OK) /\ Len(Split(s, ",")) = 3

FrequencyPayload(line) == Slice(Split(Strip(line), ",")[1], 2, -3)
PowerField(line)       == Split(Strip(line), ",")[2]

\* C10: add_string of a 3-field stream line whose frequency payload Decimal()
\* rejects and whose power field is a number appends the raw line and the
\* Power sample (a tenth of the field, at the line's timestamp) and no
\* Frequency sample.
C10_BadFrequencyKeepsPower ==
    [][(/\ calls' = calls + 1
        /\ IsStream3(last_call'.line)
        /\ ~DecimalOf(FrequencyPayload(last_call'.line)).ok
        /\ IsNumber(PowerField(last_call'.line))) =>
          /\ Len(ml'.strings) = Len(Base(ml)[1]) + 1
          /\ ml'.strings[Len(ml'.strings)][1] = last_call'.line
          /\ ml'.frequencies = Base(ml)[2]
          /\ ml'.power =
               Append(Base(ml)[3],
                      Entry(Tenth(DecimalOf(PowerField(last_call'.line)).val),
                            ml'.strings[Len(ml'.strings)][2]))]_vars

\* the line "$AX001,+00129," was added to an empty log: 12.9 is stored as
\* Power and no Frequency
C10_Witness ==
    /\ last_call.line = StreamLine3(<<"X">>, <<"+", "0", "0", "1", "2", "9">>)
    /\ Len(ml.strings) = 1
    /\ ml.frequencies = << >>
    /\ Len(ml.power) = 1
    /\ ml.power[1][1] = [kind |-> "num", neg |-> FALSE, digits |-> <<1, 2, 9>>, exp |-> -1]

\* a line the decoder classifies Unknown for lack of both markers
IsUnknown(line) == ~Contains(line, OK) /\ ~Contains(line, <<"$">>)

\* C11 as stated: add_string of a line with neither "OK" nor "$" leaves the
\* Frequency sequence, the Power sequence and the settings unchanged.
C11_UnknownLeavesUnchanged ==
    [][(calls' = calls + 1 /\ IsUnknown(last_call'.line)) =>
          /\ ml'.frequencies = ml.frequencies
          /\ ml'.power = ml.power
          /\ ml'.latest_settings = ml.latest_settings]_vars

\* C11: add_string of a line with neither "OK" nor "$" stores no sample and
\* leaves the settings unchanged: the Frequency and Power sequences are what
\* they were, or empty if a reset was pending.
C11_UnknownStoresNothing ==
    [][(calls' = calls + 1 /\ IsUnknown(last_call'.line)) =>
          /\ ~last_call'.raised
          /\ ml'.frequencies = Base(ml)[2]
          /\ ml'.power = Base(ml)[3]
          /\ ml'.latest_settings = ml.latest_settings]_vars

\* "AB12CDE" was added after a line that stored a Frequency sample
C11_Witness ==
    /\ last_call.line = <<"A", "B", "1", "2", "C", "D", "E">> \o CRLF
    /\ Len(ml.strings) = 2
    /\ Len(ml.frequencies) = 1

\* the comma-separated fields of a stripped line, found from the commas
CommasOf(s) == {i \in 1..Len(s) : s[i] = ","}
FieldCount(s) == Cardinality(CommasOf(s)) + 1
FirstComma(s) == CHOOSE i \in CommasOf(s) : \A j \in CommasOf(s) : i <= j
FirstField(s) == IF CommasOf(s) = {} THEN s ELSE SubSeq(s, 1, FirstComma(s) - 1)
AfterFirstComma(s) == SubSeq(s, FirstComma(s) + 1, Len(s))
SecondField(s) == FirstField(AfterFirstComma(s))
\* a field without its first 2 and its last 3 characters
TrimField(f) == SubSeq(f, 3, Len(f) - 3)

IsStream(line) == Contains(line, <<"$">>) /\ ~Contains(line, OK)

ExampleLine == StreamLine3(ExamplePayload, <<"+", "0", "0", "1", "2", "9">>)
ExampleFrequency ==
    [kind |-> "num", neg |-> FALSE, digits |-> <<1, 0, 0, 0, 0, 0, 0, 0, 0, 0, 1>>, exp |-> -3]
ExamplePower == [kind |-> "num", neg |-> FALSE, digits |-> <<1, 2, 9>>, exp |-> -1]

\* C12: a stream line decodes to a Frequency measurement whose payload is
\* the first field without its first 2 and last 3 characters, followed by a
\* Power measurement of the second field exactly when there are 3 fields;
\* the line "$A0010000000.001000001,+00129," stores the Frequency sample
\* 10000000.001 and the Power sample 12.9.
C12_StreamLineMeasurements ==
    [][(calls' = calls + 1 /\ IsStream(last_call'.line)) =>
          LET s == Strip(last_call'.line)
              f == Measurement(FREQUENCY, TrimField(FirstField(s)))
              timestamp == ml'.strings[Len(ml'.strings)][2]
          IN  /\ ~last_call'.raised
              /\ preprocess_string(last_call'.line).measurements =
                    IF FieldCount(s) = 3
                    THEN << f, Measurement(POWER, SecondField(s)) >>
                    ELSE << f >>
              /\ last_call'.line = ExampleLine =>
                    /\ ml'.frequencies =
                          Append(Base(ml)[2], Entry(ExampleFrequency, timestamp))
                    /\ ml'.power = Append(Base(ml)[3], Entry(ExamplePower, timestamp))]_vars

\* the example line was added to an empty log and stored both samples
C12_Witness ==
    /\ last_call.line = ExampleLine
    /\ Len(ml.strings) = 1
    /\ Len(ml.frequencies) = 1 /\ ml.frequencies[1][1] = ExampleFrequency
    /\ Len(ml.power) = 1 /\ ml.power[1][1] = ExamplePower

\* the two categories of a log and one that _get_data does not know
Categories == {"frequency", "power", "other"}

\* C13: a statistic without enough data returns its sentinel: on an empty
\* sequence or an unknown category min, max, mean, standard deviation and
\* peak-to-peak are 0.0, latest is (0.0, 0.0) and count is 0; with fewer
\* than two samples the standard deviation is 0.0 and the interval is 0.
C13_Sentinels ==
    \A category \in Categories :
        /\ _get_data(ml, category) = << >> =>
              /\ min_value(ml, category) = Returned(FloatZero)
              /\ max_value(ml, category) = Returned(FloatZero)
              /\ average_value(ml, category) = Returned(FloatZero)
              /\ std_dev_value(ml, category) = Returned(FloatZero)
              /\ peak_to_peak(ml, category) = Returned(FloatZero)
              /\ latest_value(ml, category) = << FloatZero, FloatZero >>
              /\ count(ml, category) = 0
        /\ Len(_get_data(ml, category)) < 2 =>
              /\ std_dev_value(ml, category) = Returned(FloatZero)
              /\ get_time_interval(ml, category) = 0

\* a log with one Frequency sample and no Power sample
C13_Witness ==
    /\ Len(ml.strings) = 1
    /\ Len(ml.frequencies) = 1
    /\ ml.power = << >>

\* C14: on a non-empty Frequency or Power sequence peak_to_peak returns
\* max_value minus min_value, and the result is not negative.
C14_PeakToPeakIsRange ==
    \A category \in {"frequency", "power"} :
        _get_data(ml, category) # << >> =>
            /\ min_value(ml, category).ok
            /\ max_value(ml, category).ok
            /\ peak_to_peak(ml, category).ok
            /\ peak_to_peak(ml, category) =
                  DecimalSub(max_value(ml, category).val, min_value(ml, category).val)
            /\ ~peak_to_peak(ml, category).val.neg

\* the arguments get_freq_difference is called with: 0, 12 and -0.1 as the
\* frequency, 0, 10 and -1 as the target
FreqArgs == {Zero, [kind |-> "num", neg |-> FALSE, digits |-> << 1, 2 >>, exp |-> 0],
             [kind |-> "num", neg |-> TRUE, digits |-> << 1 >>, exp |-> -1]}
TargetArgs == {Zero, [kind |-> "num", neg |-> FALSE, digits |-> << 1 >>, exp |-> 1],
               [kind |-> "num", neg |-> TRUE, digits |-> << 1 >>, exp |-> 0]}

TenMillion == [kind |-> "num", neg |-> FALSE, digits |-> << 1 >>, exp |-> 7]

\* the frequency the difference is taken from: the mean of the stored
\* samples when the argument is 0 and there are samples
FrequencyUsed(log, freq) ==
    IF freq = Zero /\ log.frequencies # << >> THEN average_value(log, "frequency").val
    ELSE freq

\* C15: get_freq_difference returns difference = frequency - target, ppm =
\* 1000000 * difference / target when target > 0 and ppm = 0.0 otherwise;
\* called with 0 and 0 on a log whose only sample is 10000000 it returns the
\* target 10000000, the difference 0 and ppm 0.
C15_FreqDifference ==
    \A freq \in FreqArgs, target_freq \in TargetArgs :
        LET r == get_freq_difference(ml, freq, target_freq)
        IN  /\ r.ok
            /\ r.difference = DecimalSub(FrequencyUsed(ml, freq), r.target).val
            /\ r.ppm = IF DecimalGreater(r.target, Zero).val
                       THEN DecimalDiv(MillionTimes(r.difference), r.target).val
                       ELSE FloatZero
            /\ (/\ freq = Zero /\ target_freq = Zero
                /\ ValuesOf(ml.frequencies) = << TenMillion >>) =>
                  /\ r.target = TenMillion
                  /\ r.difference = Zero
                  /\ r.ppm = Zero

\* the error signals among the undelivered ones, and the step in which the
\* reader w catches a transport exception: from reading to after the loop
ErrorSignals(q) == {i \in 1..Len(q) : q[i] = ERROR_SERIAL_EXCEPTION}
CatchesException(w) == workers[w].pc = "read" /\ workers'[w].pc = "close"
Ended(pc) == pc = "close" \/ pc = "done"

\* C16: the step in which a reader catches a transport exception emits one
\* error signal and calls add_string no more; no other step emits an error
\* signal; a reader that left its loop never reads or adds again, and its
\* one remaining step is the close of the transport; a reader comes into
\* being only in start_loop, with the start button enabled.
C16_TransportErrorIsTerminal ==
    [][/\ \A w \in 1..Len(workers) :
            /\ CatchesException(w) =>
                  /\ signals' = Append(signals, ERROR_SERIAL_EXCEPTION)
                  /\ ~workers'[w].working
                  /\ calls' = calls /\ ml' = ml
            /\ Ended(workers[w].pc) =>
                  /\ Ended(workers'[w].pc)
                  /\ workers[w].pc = "done" => workers'[w].pc = "done"
                  /\ workers'[w].pc = workers[w].pc \/ signals' = signals
       /\ Cardinality(ErrorSignals(signals')) > Cardinality(ErrorSignals(signals)) =>
            \E w \in 1..Len(workers) : CatchesException(w)
       /\ Len(workers') # Len(workers) =>
            /\ start_button
            /\ workers' = Append(workers, NewWorker)]_vars

\* a reader ended by a transport exception: its error signal is the one
\* signal waiting, no line was added, the transport is closed
C16_Witness ==
    /\ Len(workers) = 1
    /\ workers[1].pc = "done"
    /\ signals = << ERROR_SERIAL_EXCEPTION >>
    /\ calls = 0

\* the command the claim gives for each gate time the window offers
OfferedGateTimes ==
    { << <<"0", ".", "1">> \o SEC, "$A00100*" >>, << <<"0", ".", "2">> \o SEC, "$A00200*" >>,
      << <<"0", ".", "5">> \o SEC, "$A00500*" >>, << <<"1">> \o SEC, "$A01000*" >>,
      << <<"2">> \o SEC, "$A02000*" >>, << <<"5">> \o SEC, "$A05000*" >>,
      << <<"1", "0">> \o SEC, "$A10000*" >>, << <<"2", "0">> \o SEC, "$A20000*" >> }

Serialized(command) == IF command.isstr THEN command.text ELSE Commands[command.text]

\* C17: a step that writes to the transport writes one text, the fixed
\* payload of the enumerated command or the literal string unchanged, of the
\* oldest command not yet written; a string the gate-time button enqueues is
\* the command of an offered gate time, and at every click the command of
\* each gate time the combo box offers is "$A", its milliseconds in 5
\* digits, "*".
C17_CommandSerialization ==
    [][/\ written' # written =>
            /\ Len(written') <= Len(enqueued')
            /\ written' = Append(written, Serialized(enqueued'[Len(written')]))
       /\ \A i \in 1..Len(enqueued') :
            (enqueued'[i].isstr /\ enqueued'[i].text \notin UserTexts) =>
                \E offered \in OfferedGateTimes : enqueued'[i].text = offered[2]
       /\ clicks' # clicks =>
            /\ {offered[1] : offered \in OfferedGateTimes} = GateTimeItems
            /\ \A offered \in OfferedGateTimes :
                 LET command == make_gate_time_command(Slice(offered[1], 0, -5))
                 IN  command.ok /\ Str(command.val) = offered[2]]_vars

\* the command of the longest gate time was written first, as enqueued, then
\* an enumerated command, as its payload
C17_Witness ==
    /\ Len(written) = 2
    /\ written[1] = "$A20000*"
    /\ written[2] = "$D*"
    /\ enqueued[1] = StrCommand("$A20000*")
    /\ enqueued[2] = EnumCommand("GET_FREQ_POWER_SETTINGS")

AckCodes == {POK, AOK, GOK, DOK, EOK, COK}

\* the line, without its CRLF, ends with an acknowledgement code
EndsWithAck(line) == Slice(line, -5, -2) \in AckCodes

\* the step is the window handling this line
Handles(line) == signals # << >> /\ Head(signals) = line /\ signals' = Tail(signals)

\* C19 as stated: handling a line that is neither a stream sample nor ended
\* by an acknowledgement code dequeues no command and writes nothing.
C19_OtherLinesNeverRelease ==
    [][\A line \in SessionLines :
          (Handles(line) /\ ~IsStream(line) /\ ~EndsWithAck(line)) =>
              /\ written' = written
              /\ Len(command_queue') >= Len(command_queue)]_vars

\* C20 as stated: with the connection established and a command queued,
\* handling a line the decoder takes for a stream sample, or a line ended by
\* an acknowledgement code, writes the head of the queue and nothing else.
C20_ReleaseWritesHead ==
    [][\A line \in SessionLines :
          (/\ Handles(line)
           /\ is_serial_port_established
           /\ command_queue # << >>
           /\ IsStream(line) \/ EndsWithAck(line)) =>
              written' = Append(written, Serialized(Head(command_queue)))]_vars

\* C18 as stated: a stream line framed by any 2-character prefix and any
\* 3-character suffix, and a power reply framed by any 2-character prefix and
\* any 4-character suffix ending in POK, decode to one measurement whose
\* payload is the framed decimal string, which parses to the same number.
C18_RoundTrip ==
    /\ \A frame \in StreamFrames :
          last_call.line = Framed(frame) =>
              /\ preprocess_string(last_call.line).measurements =
                    << Measurement(FREQUENCY, frame.payload) >>
              /\ ml.frequencies # << >>
              /\ ml.frequencies[Len(ml.frequencies)][1] = DecimalOf(frame.payload).val
    /\ \A frame \in PowerFrames :
          last_call.line = Framed(frame) =>
              /\ preprocess_string(last_call.line).measurements =
                    << Measurement(POWER, frame.payload) >>
              /\ ml.power # << >>
              /\ ml.power[Len(ml.power)][1] = DivideByTen(DecimalOf(frame.payload).val).val

\* waiting_for_command is True while the scheduler waits for a command to
\* send and False while a sent command waits for its reply
WaitingForReply(flag) == ~flag

\* C21: a step that runs send_command on a non-empty queue (the queue as it
\* is after the settings queries of the first line are appended) pops its
\* head and marks the scheduler as waiting for a reply; on an empty queue it
\* marks it as not waiting; no other step changes the mark.
C21_WaitingFlagTracksInFlight ==
    [][IF HandlesLine /\ Releases(Head(signals))
       THEN LET queue == command_queue \o AutoCommands(get_FA_settings)
            IN  IF queue # << >>
                THEN /\ command_queue' = Tail(queue)
                     /\ WaitingForReply(waiting_for_command')
                ELSE /\ command_queue' = << >>
                     /\ ~WaitingForReply(waiting_for_command')
       ELSE waiting_for_command' = waiting_for_command]_vars

\* a command was popped and written, another is still queued, and the
\* scheduler waits for the reply
C21_Witness ==
    /\ Len(written) = 1
    /\ command_queue # << >>
    /\ WaitingForReply(waiting_for_command)

\* the samples a log gets from its raw lines when every add_string call runs
\* from its first statement to its last with nothing in between
RECURSIVE Whole(_, _)
Whole(strings, log) ==
    IF strings = << >> THEN log
    ELSE Whole(Tail(strings),
               AddDecoded(log, Head(strings)[1], Head(strings)[2],
                          preprocess_string(Head(strings)[1])).ml)

Untorn(view) ==
    view = View(Whole(view.strings, NewMeasureLog(0)))

\* C22 as stated: whatever the window reads from the log is the log between
\* two add_string calls: every raw line with all the samples it gives, and
\* after a reset all three sequences cleared.
C22_NoTornRead == Untorn(shown)

\* a reader that may still read the transport and call add_string: it has
\* not left its loop
Alive(w) == workers[w].pc \in {"loop", "read", "add"}

\* C23 as stated: at most one reader is alive at any time.
C23_OneReaderAlive == Cardinality({w \in 1..Len(workers) : Alive(w)}) <= 1

\* reader w exists and its working flag is cleared
Cancelled(w) == w <= Len(workers) /\ ~workers[w].working

\* reader w has run SERIAL_CON.close()
Closed(w) == w <= Len(workers) /\ workers[w].pc = "done"

\* C24 as stated: a reader whose working flag is cleared does not enter its
\* loop again, leaves it after the add_string of the line it was reading,
\* and eventually has closed the transport.
C24_CooperativeCancellation ==
    /\ [][\A w \in 1..Len(workers) :
            ~workers[w].working =>
                /\ workers[w].pc = "loop" => workers'[w].pc \in {"loop", "close"}
                /\ workers[w].pc = "add" =>
                      workers'[w].pc \in {"add", "close", "crashed"}]_vars
    /\ \A w \in 1..MaxStarts : [](Cancelled(w) => <>Closed(w))

\* the code the stripped line ends with is one of the six
AckEnded(line) == SliceFrom(Strip(line), -3) \in AckCodes

\* C25 as stated: a line with "OK" that does not end with one of the six
\* codes decodes to no measurement and an empty delta, and the decoder gives
\* a Power measurement for a line with "OK" only if the line ends with POK.
C25_OtherOkLinesAreUnknown ==
    LET line == last_call.line
        decoded == preprocess_string(line)
    IN  (calls > 0 /\ Contains(line, OK)) =>
            /\ ~AckEnded(line) =>
                  /\ ~decoded.raised
                  /\ decoded.measurements = << >>
                  /\ decoded.new_settings = FASettings
            /\ (\E i \in 1..Len(decoded.measurements) :
                    decoded.measurements[i].category = POWER) =>
                  SliceFrom(Strip(line), -3) = POK

\* the character at 0-based position i of s, as a text of length 0 or 1
At(s, i) == IF i < Len(s) THEN << s[i + 1] >> ELSE << >>

\* the delta the statement gives for the stripped line s
StatusDelta(s) ==
    [FASettings EXCEPT
       !.channel = CASE At(s, 1) = <<"A">> -> "Channel: 1"
                     [] At(s, 1) = <<"B">> -> "Channel: 2"
                     [] At(s, 1) = <<"T">> -> "Channel: Internal Clock"
                     [] OTHER -> None,
       !.precision = PyBool(At(s, 2) = <<"P">>),
       !.ext_reference_osc = PyBool(At(s, 3) = <<"E">>),
       !.imp50 = PyBool(At(s, 4) = <<"R">>),
       !.lpf = PyBool(At(s, 5) = <<"L">>)]

\* C26 as stated: a line ending with DOK decodes to no measurement and to
\* the delta read from positions 1 to 5, and the example line gives
\* Channel 1, precision true, external reference false, impedance true and
\* lpf false.
C26_DeviceStatusDecoding ==
    LET s == Strip(last_call.line)
        decoded == preprocess_string(last_call.line)
    IN  (calls > 0 /\ SliceFrom(s, -3) = DOK) =>
            /\ ~decoded.raised
            /\ decoded.measurements = << >>
            /\ decoded.new_settings = StatusDelta(s)
            /\ s = DeviceStatusExample =>
                  decoded.new_settings =
                      [FASettings EXCEPT !.channel = "Channel: 1",
                                         !.precision = True,
                                         !.ext_reference_osc = False,
                                         !.imp50 = True,
                                         !.lpf = False]

\* the same for the lines that have no "POK" inside
C26_StatusWithoutPower ==
    LET s == Strip(last_call.line)
        decoded == preprocess_string(last_call.line)
    IN  (calls > 0 /\ SliceFrom(s, -3) = DOK /\ ~Contains(s, POK)) =>
            /\ decoded.measurements = << >>
            /\ decoded.new_settings = StatusDelta(s)
            /\ s = DeviceStatusExample =>
                  (decoded.new_settings.channel = "Channel: 1"
                      /\ decoded.new_settings.lpf = False)

\* a line that ends with AOK or GOK
IsGateAck(line) == SliceFrom(Strip(line), -3) \in {AOK, GOK}

\* the seven characters that end seven characters before the line's end
GateField(line) == Slice(Strip(line), -14, -7)

\* C27 as stated: a line ending with AOK or GOK decodes to no measurement
\* and to a delta whose gate time is the integer in the gate field, and
\* add_string of the line sets the tracked gate time to that integer when
\* it is positive and leaves it alone when it is zero.
C27_GateTimeAcknowledgement ==
    [][(calls' = calls + 1 /\ IsGateAck(last_call'.line)) =>
          LET decoded == preprocess_string(last_call'.line)
              g == IntOf(GateField(last_call'.line))
          IN  /\ g.ok
              /\ ~decoded.raised
              /\ ~last_call'.raised
              /\ decoded.measurements = << >>
              /\ decoded.new_settings = [FASettings EXCEPT !.gate_time = g.val]
              /\ g.val > 0 => ml'.latest_settings.gate_time = g.val
              /\ g.val = 0 =>
                    ml'.latest_settings.gate_time = ml.latest_settings.gate_time]_vars

\* the same for the lines whose gate field is an integer and that have no
\* "POK" inside
C27_GateTimeOfIntegerField ==
    [][(/\ calls' = calls + 1
        /\ IsGateAck(last_call'.line)
        /\ IntOf(GateField(last_call'.line)).ok
        /\ ~Contains(last_call'.line, POK)) =>
          LET decoded == preprocess_string(last_call'.line)
              g == IntOf(GateField(last_call'.line))
          IN  /\ ~last_call'.raised
              /\ decoded.measurements = << >>
              /\ decoded.new_settings = [FASettings EXCEPT !.gate_time = g.val]
              /\ g.val > 0 => ml'.latest_settings.gate_time = g.val
              /\ g.val = 0 =>
                    ml'.latest_settings.gate_time = ml.latest_settings.gate_time]_vars

\* a low-pass-filter reply: EOK after a leading "LPF", or COK with "LPF" at
\* positions 4 to 6
IsLpfReply(s) ==
    \/ SliceFrom(s, -3) = EOK /\ Slice(s, 0, 3) = LPF
    \/ SliceFrom(s, -3) = COK /\ Slice(s, 4, 7) = LPF

\* the one literal that turns the filter on in a reply with this ending
LpfOnLiteral(s) == IF SliceFrom(s, -3) = EOK THEN LPF_ON_EOK ELSE CH1_LPF_ON_COK

\* C28: add_string of a line ending with EOK or COK gives a delta whose lpf
\* is true iff the line is a low-pass-filter reply equal to its literal
\* ("LPF ON EOK", "CH1 LPF ON COK"); an EOK or COK line that is not a
\* low-pass-filter reply carries no lpf value and leaves the tracked lpf
\* unchanged.
C28_LpfExactLiteral ==
    [][(calls' = calls + 1 /\ SliceFrom(Strip(last_call'.line), -3) \in {EOK, COK}) =>
          LET s == Strip(last_call'.line)
              decoded == preprocess_string(last_call'.line)
          IN  /\ ~last_call'.raised
              /\ IsLpfReply(s) =>
                    (decoded.new_settings.lpf = True <=> s = LpfOnLiteral(s))
              /\ ~IsLpfReply(s) =>
                    /\ decoded.new_settings.lpf = None
                    /\ ml'.latest_settings.lpf = ml.latest_settings.lpf]_vars

\* "CH2 LPF ON COK" was added after "LPF ON EOK": the filter is tracked off
C28_Witness ==
    /\ calls = 2
    /\ Strip(last_call.line) =
          <<"C", "H", "2", " ", "L", "P", "F", " ", "O", "N", " ">> \o COK
    /\ ml.strings[1][1] = LPF_ON_EOK \o CRLF
    /\ ml.latest_settings.lpf = False

\* the most commands one behaviour enqueues: the two queries of the first
\* handled line and the two commands of a button
MaxQueued == 2 + 2 * MaxClicks

\* the reader takes from the transport a line that is a stream sample or
\* ends with an acknowledgement code
Arrives ==
    \E w \in 1..Len(workers) : \E line \in LiveLines :
        /\ IsStream(line) \/ EndsWithAck(line)
        /\ ReaderReadLine(w, line)

\* C29 as stated: if the connection stays established and stream-sample or
\* acknowledgement lines keep arriving, every enqueued command is eventually
\* written; and a step that enqueues writes nothing, a write happens only
\* in the handling of a received line.
C29_SchedulerLiveness ==
    /\ (<>[]is_serial_port_established /\ []<><<Arrives>>_vars) =>
           \A k \in 1..MaxQueued :
               [](Len(enqueued) >= k => <>(Len(written) >= k))
    /\ [][(enqueued' # enqueued /\ ~HandlesLine) => written' = written]_vars
    /\ [][written' # written => HandlesLine]_vars

\* the reader takes from the transport a line the window's test releases on
ArrivesReleasing ==
    \E w \in 1..Len(workers) : \E line \in LiveLines :
        /\ Releases(line)
        /\ ReaderReadLine(w, line)

\* the same when the lines that keep arriving are lines the window's test
\* releases on
C29_LivenessOfReleasingLines ==
    (<>[]is_serial_port_established /\ []<><<ArrivesReleasing>>_vars) =>
        \A k \in 1..MaxQueued :
            [](Len(enqueued) >= k => <>(Len(written) >= k))

\* the timestamps of the raw-line entries of a log
LineTimes(log) == {log.strings[i][2] : i \in 1..Len(log.strings)}

\* every sample of the sequence carries the timestamp of a raw-line entry
Stamped(samples, log) == \A i \in 1..Len(samples) : samples[i][2] \in LineTimes(log)

\* C30: in every state of the log driven by one producer the Frequency and
\* the Power sequence are no longer than the raw-line sequence and every
\* sample's timestamp is the timestamp of a raw-line entry; and every
\* add_string call adds at most one Frequency and at most one Power sample
\* to the sequences it starts from.
C30_LogShape ==
    /\ [](/\ Len(ml.frequencies) <= Len(ml.strings)
          /\ Len(ml.power) <= Len(ml.strings)
          /\ Stamped(ml.frequencies, ml)
          /\ Stamped(ml.power, ml))
    /\ [][calls' = calls + 1 =>
            /\ Len(ml'.frequencies) <= Len(Base(ml)[2]) + 1
            /\ Len(ml'.power) <= Len(Base(ml)[3]) + 1]_vars

\* two lines are in the log, the second at a later timestamp: each gave a
\* Frequency sample and one of them a Power sample
C30_Witness ==
    /\ Len(ml.strings) = 2
    /\ ml.strings[1][2] # ml.strings[2][2]
    /\ Len(ml.frequencies) = 2
    /\ Len(ml.power) = 1
    /\ ml.frequencies[2][2] = ml.strings[2][2]

\* a line ending with DOK whose channel character is none of A, B, T
IsStatusOfNoChannel(line) ==
    /\ SliceFrom(Strip(line), -3) = DOK
    /\ At(Strip(line), 1) \notin {<<"A">>, <<"B">>, <<"T">>}

\* C31 as stated: add_string of a DOK line whose channel character is none
\* of A, B, T keeps the tracked channel and sets precision, external
\* reference, impedance and low-pass filter each to True or False, as read
\* from positions 2 to 5.
C31_UnknownChannelKept ==
    [][(calls' = calls + 1 /\ IsStatusOfNoChannel(last_call'.line)) =>
          LET s == Strip(last_call'.line)
              after == ml'.latest_settings
          IN  /\ ~last_call'.raised
              /\ after.channel = ml.latest_settings.channel
              /\ after.precision = PyBool(At(s, 2) = <<"P">>)
              /\ after.ext_reference_osc = PyBool(At(s, 3) = <<"E">>)
              /\ after.imp50 = PyBool(At(s, 4) = <<"R">>)
              /\ after.lpf = PyBool(At(s, 5) = <<"L">>)
              /\ after.gate_time = ml.latest_settings.gate_time]_vars

\* the same for the lines that have no "POK" inside
C31_KeptWithoutPower ==
    [][(/\ calls' = calls + 1
        /\ IsStatusOfNoChannel(last_call'.line)
        /\ ~Contains(last_call'.line, POK)) =>
          LET s == Strip(last_call'.line)
              after == ml'.latest_settings
          IN  /\ ~last_call'.raised
              /\ after.channel = ml.latest_settings.channel
              /\ after.precision = PyBool(At(s, 2) = <<"P">>)
              /\ after.ext_reference_osc = PyBool(At(s, 3) = <<"E">>)
              /\ after.imp50 = PyBool(At(s, 4) = <<"R">>)
              /\ after.lpf = PyBool(At(s, 5) = <<"L">>)]_vars

\* every setting known in the snapshot before is known in the snapshot after
StillKnown(before, after) ==
    /\ before.channel # None => after.channel # None
    /\ before.imp50 # None => after.imp50 # None
    /\ before.precision # None => after.precision # None
    /\ before.ext_reference_osc # None => after.ext_reference_osc # None
    /\ before.lpf # None => after.lpf # None
    /\ before.gate_time > 0 => after.gate_time > 0

\* C32: reset(), with or without the start instant, leaves the settings
\* snapshot of the log as it is and empties the three sequences (the start
\* instant is the only other field it may set); reset_on_next_read() changes
\* nothing but the pending flag; and the add_string call that performs a
\* pending reset merges its line's delta into the snapshot held before the
\* reset, so that every setting known before is known after.
C32_ResetKeepsSettings ==
    [][/\ \A reset_time \in BOOLEAN :
             LET after == reset(ml, reset_time, now)
             IN  /\ after.latest_settings = ml.latest_settings
                 /\ Sequences3(after) = << << >>, << >>, << >> >>
                 /\ ~after.reset_on_the_next_read
                 /\ ~reset_time => after.start_time = ml.start_time
       /\ (calls' = calls /\ ml' # ml) =>
             ml' = [ml EXCEPT !.reset_on_the_next_read = TRUE]
       /\ (calls' = calls + 1 /\ ml.reset_on_the_next_read) =>
             /\ ~ml'.reset_on_the_next_read
             /\ StillKnown(ml.latest_settings, ml'.latest_settings)
             /\ ml'.latest_settings =
                   IF last_call'.raised THEN ml.latest_settings
                   ELSE update_settings(ml.latest_settings,
                                        preprocess_string(last_call'.line).new_settings)]_vars

\* the channel was learned from a status line, the statistics were reset,
\* and the log now holds only the line "HELLO" that came after the reset:
\* the channel is still known
C32_Witness ==
    /\ calls = 2
    /\ Len(ml.strings) = 1
    /\ ml.strings[1][1] = <<"H", "E", "L", "L", "O">> \o CRLF
    /\ ml.latest_settings.channel = "Channel: 1"
    /\ ~ml.reset_on_the_next_read

=============================================================================
